---- MODULE Spec2Model ----
(***************************************************************************)
(* Model of the Invariance Analysis & Integrity Engine:                    *)
(*   Core/semantic_vector_space.py  SemanticVectorSpace                    *)
(*   Core/degradation_index.py      DegradationIndexCalculator             *)
(*   Core/shannon_entropy.py        ShannonEntropyCalculator               *)
(*   Core/truth_invariance.py       TruthInvarianceValidator               *)
(*   Core/invariance_engine.py      InvarianceEngine                       *)
(*   Sovereignty/integrity_chain.py IntegrityChain                         *)
(*   Sovereignty/cryptographic_proof.py CryptographicProofGenerator        *)
(*                                                                         *)
(* Numbers.  Counts are integers.  I_D and the two status thresholds are   *)
(* exact rationals <<num, den>> (the float comparisons of the code agree   *)
(* with the exact ones for every dimension up to max_features).  TF-IDF    *)
(* weights are kept unnormalised as integers scaled by IdfScale, with the  *)
(* squared L2 norm beside them; cosine distance is fixed point, scaled by  *)
(* Scale.                                                                  *)
(***************************************************************************)
EXTENDS Integers, Sequences, FiniteSets, TLC

VARIABLES
    text_origin,    \* argument of the call under observation
    text_control,   \* argument of the call under observation
    degradation,    \* outcome of DegradationIndexCalculator.calculate
    metrics,        \* outcome of calculate_with_metrics
    vs,             \* a caller-held SemanticVectorSpace object
    fitted,         \* history: a fit_transform call on vs has completed
    last_fit,       \* history: the texts of the last fit_transform on vs that completed
    ret,            \* the last other call (on vs, or of the engine) and its outcome
    data,           \* data handed to IntegrityChain.create_link
    link,           \* the IntegrityLink under verification
    metadata,       \* metadata handed to IntegrityChain.create_link
    forged,         \* history: the link fields replaced after creation
    probe,          \* data handed to IntegrityChain.verify_link
    verdict,        \* outcome of IntegrityChain.verify_link
    hashes,         \* the three chain-hash implementations on one record
    perturbed,      \* perturbed_responses argument of analyze
    clock,          \* datetime.utcnow(), in ticks
    run1,           \* an IntegrityMatrix returned by InvarianceEngine.analyze
    run2,           \* the IntegrityMatrix of a later run on the same inputs
    invariance,     \* outcome of TruthInvarianceValidator.validate_invariance
    original_prompt,    \* argument of generate_perturbations
    n_perturbations,    \* argument of generate_perturbations
    perturbations,      \* the list generate_perturbations returned
    perturbations_again, \* the list a second call with the same arguments returned
    logs,           \* the InteractionLog list handed to analyze_period
    stats,          \* DegradationMonitor.stats of the analyzer's monitor
    temporal,       \* outcome of TemporalAnalyzer.analyze_period
    slope,          \* argument of _determine_trend_direction
    direction,      \* outcome of _determine_trend_direction
    links,          \* a list of IntegrityLink objects, in order of creation
    permuted,       \* the same links in another order
    roots,          \* create_merkle_root of links and of permuted
    entropy,        \* outcome of ShannonEntropyCalculator.calculate_entropy
    index,          \* argument of the classifications, an I_D value
    classified,     \* index as classified by calculator, monitor and alert system
    data_list,      \* argument of batch_create_links
    metadata_list,  \* argument of batch_create_links, a list of references to dicts
    heap,           \* the dicts that metadata references point to
    created,        \* the list batch_create_links returned
    printed,        \* what ejecutar_auditoria printed, with the matrix it read
    monitored,      \* history, the number of interactions monitored so far
    monitor_ret,    \* the last call on the DegradationMonitor and its outcome
    relinked,       \* a second IntegrityLink, and who built it
    reverdict       \* outcome of verify_link on the second link

vars == <<text_origin, text_control, degradation, metrics, vs, fitted, last_fit, ret,
          data, metadata, link, forged, probe, verdict, hashes, perturbed, clock, run1, run2,
          invariance, original_prompt, n_perturbations, perturbations, perturbations_again,
          logs, stats, temporal, slope, direction, links, permuted, roots,
          entropy,
          index, classified,
          data_list, metadata_list, heap, created,
          printed,
          monitored, monitor_ret,
          relinked, reverdict>>

\* Python's None, and the outcome of a call: the exception it raised or the
\* value it returned
None == [none |-> TRUE]
NoExc == "no exception"
Raised(e) == [exc |-> e]
Returned(v) == [exc |-> NoExc, val |-> v]

----------------------------------------------------------------------------
(* Bounds of the model *)

MaxOriginLen == 3
MaxControlLen == 2
MaxFitLen == 1
MaxDataLen == 1
MaxDataInt == 1
MaxEngineLen == 1
MaxClock == 4
MaxInvLen == 2
MaxPerturbed == 2
MaxPromptLen == 3
MaxRequested == 9
MaxLogs == 3
MaxSlopePct == 60
MaxLinks == 3
MaxEntropyLen == 3
IndexSteps == 100
MaxBatch == 3
MaxAuditLen == 2
MaxMonitorCalls == 2
MaxMonitorBatch == 2

----------------------------------------------------------------------------
(* Texts.  A text is the sequence of its words (maximal runs of word        *)
(* characters); a word is the sequence of its characters.                   *)

Words == { <<"a", "a">>, <<"b", "b">>, <<"D", "d">>, <<"c">> }

TextsUpTo(n) == UNION { [1..k -> Words] : k \in 0..n }

OriginTexts == TextsUpTo(MaxOriginLen)
ControlTexts == TextsUpTo(MaxControlLen)

\* str.lower(), on the characters of the model
LowerChar(ch) ==
    CASE ch = "A" -> "a"
      [] ch = "B" -> "b"
      [] ch = "D" -> "d"
      [] OTHER -> ch

LowerWord(w) == [i \in 1..Len(w) |-> LowerChar(w[i])]

\* TfidfVectorizer(lowercase=True, token_pattern=r'(?u)\b\w\w+\b')
MinTokenLen == 2

IsToken(w) == Len(w) >= MinTokenLen

Tokenize(text) == SelectSeq([i \in 1..Len(text) |-> LowerWord(text[i])], IsToken)

\* ngram_range=(1, 2): a feature is a token or two adjacent tokens
Ngrams(toks) ==
    { <<toks[i]>> : i \in 1..Len(toks) }
    \cup { <<toks[i], toks[i + 1]>> : i \in 1..(Len(toks) - 1) }

\* term frequency of feature f in a token sequence
TermCount(f, toks) ==
    Cardinality({ i \in 1..(Len(toks) - Len(f) + 1) :
                    \A j \in 1..Len(f) : toks[i + j - 1] = f[j] })

\* smooth idf over the two documents, ln((1+2)/(1+df)) + 1, scaled by IdfScale
IdfScale == 10
IdfBoth == 10
IdfOne == 14

Idf(f, toksO, toksC) ==
    IF TermCount(f, toksO) > 0 /\ TermCount(f, toksC) > 0 THEN IdfBoth ELSE IdfOne

RECURSIVE SumOver(_, _)
SumOver(S, g) ==
    IF S = {} THEN 0
    ELSE LET x == CHOOSE y \in S : TRUE IN g[x] + SumOver(S \ {x}, g)

RowOfWeights(w, vocab) ==
    [w |-> w, n2 |-> SumOver(vocab, [f \in vocab |-> w[f] * w[f]])]

\* one row of the TF-IDF matrix: unnormalised weights and their squared norm
TfidfRow(toks, vocab, toksO, toksC) ==
    RowOfWeights([f \in vocab |-> TermCount(f, toks) * Idf(f, toksO, toksC)], vocab)

\* SemanticVectorSpace.__init__
max_features == 1000

NewVectorSpace == [V_O |-> None, V_C |-> None, feature_names |-> None]

\* fit_transform, from the vocabulary of the two token sequences on
FitOnVocabulary(self, toksO, toksC, vocab) ==
    IF vocab = {} THEN [exc |-> "ValueError", self |-> self]
    ELSE [exc |-> NoExc,
          self |-> [V_O |-> TfidfRow(toksO, vocab, toksO, toksC),
                    V_C |-> TfidfRow(toksC, vocab, toksO, toksC),
                    feature_names |-> [names |-> vocab]]]

FitOnTokens(self, toksO, toksC) ==
    FitOnVocabulary(self, toksO, toksC, Ngrams(toksO) \cup Ngrams(toksC))

\* mutant: the vectors are reset before the vectorizer runs
fit_transform_ResetsFirst(self, o, c) ==
    FitOnTokens(NewVectorSpace, Tokenize(o), Tokenize(c))

\* SemanticVectorSpace.fit_transform: the new object state, or the ValueError
\* ("empty vocabulary") of the vectorizer, which leaves self untouched.
fit_transform(self, o, c) == FitOnTokens(self, Tokenize(o), Tokenize(c))

Initialized(self) == self.V_O # None /\ self.V_C # None

\* |v_i| > threshold for the L2-normalised component w/sqrt(n2)
ThresholdInv == 1000000

Active(V, f) ==
    /\ V.w[f] > 0
    /\ ((V.n2 \div (V.w[f] * V.w[f])) \div ThresholdInv) < ThresholdInv

\* SemanticVectorSpace.dimensionality_intersection
dimensionality_intersection(self) ==
    IF ~Initialized(self) THEN Raised("ValueError")
    ELSE LET F == self.feature_names.names
         IN Returned([dim_V_O |-> Cardinality({f \in F : Active(self.V_O, f)}),
                      dim_V_C |-> Cardinality({f \in F : Active(self.V_C, f)}),
                      dim_intersection |->
                          Cardinality({f \in F : Active(self.V_O, f) /\ Active(self.V_C, f)})])

\* fixed point for distances: a float x is the integer floor(x * Scale)
Scale == 10000

RECURSIVE ISqrtBetween(_, _, _)
ISqrtBetween(n, lo, hi) ==
    IF lo >= hi THEN lo
    ELSE LET mid == (lo + hi + 1) \div 2
         IN IF mid * mid <= n THEN ISqrtBetween(n, mid, hi)
            ELSE ISqrtBetween(n, lo, mid - 1)

\* floor of the square root
ISqrt(n) == ISqrtBetween(n, 0, IF n < 46340 THEN n ELSE 46340)

Dot(VO, VC, F) == SumOver(F, [f \in F |-> VO.w[f] * VC.w[f]])

\* sklearn cosine_similarity([V_O], [V_C])[0][0]: a zero row stays zero
Similarity(self) ==
    LET nn == self.V_O.n2 * self.V_C.n2
    IN IF nn = 0 THEN 0
       ELSE (Dot(self.V_O, self.V_C, self.feature_names.names) * Scale) \div ISqrt(nn)

\* SemanticVectorSpace.cosine_distance
cosine_distance(self) ==
    IF ~Initialized(self) THEN Raised("ValueError")
    ELSE Returned(Scale - Similarity(self))

\* SemanticVectorSpace.cosine_similarity_score
cosine_similarity_score(self) ==
    IF ~Initialized(self) THEN Raised("ValueError")
    ELSE Returned(Similarity(self))

\* mutant: the not-initialized guard left out
kl_divergence_Unguarded(self) == Returned(<<"KL", self.V_O, self.V_C>>)

\* SemanticVectorSpace.kl_divergence.  scipy's entropy(P, Q) is kept as the
\* term over the two epsilon-shifted, renormalised distributions, each given
\* by its weights and their norm.
kl_divergence(self) ==
    IF ~Initialized(self) THEN Raised("ValueError")
    ELSE Returned(<<"KL", self.V_O, self.V_C>>)

\* rationals <<num, den>>, den > 0
Rat(n, d) == <<n, d>>
RatGeq(a, b) == a[1] * b[2] >= b[1] * a[2]
RatEq(a, b) == a[1] * b[2] = b[1] * a[2]
RatTimes(a, k) == <<a[1] * k, a[2]>>

\* analyze_semantic_overlap, from the dimensionalities on
OverlapOnDims(self, dims) ==
    [dimensionality |-> dims,
     cosine_similarity |-> cosine_similarity_score(self).val,
     cosine_distance |-> cosine_distance(self).val,
     kl_divergence |-> kl_divergence(self).val,
     overlap_ratio |->
         IF dims.dim_V_O > 0
         THEN Rat(dims.dim_intersection, dims.dim_V_O)
         ELSE Rat(0, 1)]

\* SemanticVectorSpace.analyze_semantic_overlap
analyze_semantic_overlap(self) ==
    IF ~Initialized(self) THEN Raised("ValueError")
    ELSE Returned(OverlapOnDims(self, dimensionality_intersection(self).val))

----------------------------------------------------------------------------
(* Core/degradation_index.py *)

CRITICAL_THRESHOLD == Rat(2, 5)      \* 0.4
HIGH_THRESHOLD == Rat(1, 4)          \* 0.25

\* mutant: the thresholds read as strict, as in the class docstring
StatusOf_Strict(I_D) ==
    IF ~RatGeq(CRITICAL_THRESHOLD, I_D) THEN "INTERFERENCIA_CRITICA"
    ELSE IF ~RatGeq(HIGH_THRESHOLD, I_D) THEN "INTERFERENCIA_ALTA"
    ELSE "ESTABLE"

\* the status branch of calculate
StatusOf(I_D) ==
    IF RatGeq(I_D, CRITICAL_THRESHOLD) THEN "INTERFERENCIA_CRITICA"
    ELSE IF RatGeq(I_D, HIGH_THRESHOLD) THEN "INTERFERENCIA_ALTA"
    ELSE "ESTABLE"

InterferenceOf(I_D) == RatGeq(I_D, HIGH_THRESHOLD)

\* mutant: the overlap ratio returned in place of its complement
IndexOf_Overlap(dim_O, dim_intersection) ==
    IF dim_O = 0 THEN Rat(0, 1) ELSE Rat(dim_intersection, dim_O)

\* I_D = 1 - dim_intersection/dim_O, and 0.0 when dim_O == 0
IndexOf(dim_O, dim_intersection) ==
    IF dim_O = 0 THEN Rat(0, 1) ELSE Rat(dim_O - dim_intersection, dim_O)

OverlapOf(dim_O, dim_intersection) ==
    IF dim_O = 0 THEN Rat(0, 1) ELSE Rat(dim_intersection, dim_O)

\* the DegradationResult that calculate builds
DegradationResult(dims, I_D, overlap_ratio) ==
    [I_D |-> I_D,
     dim_V_O |-> dims.dim_V_O,
     dim_V_C |-> dims.dim_V_C,
     dim_intersection |-> dims.dim_intersection,
     status |-> StatusOf(I_D),
     interference_detected |-> InterferenceOf(I_D),
     degradation_percentage |-> RatTimes(I_D, 100),
     overlap_ratio |-> RatTimes(overlap_ratio, 100)]

\* calculate, from the dimensionalities on
CalculateOnDims(dims) ==
    DegradationResult(dims,
                      IndexOf(dims.dim_V_O, dims.dim_intersection),
                      OverlapOf(dims.dim_V_O, dims.dim_intersection))

\* calculate, from the outcome of fit_transform on
CalculateOnFit(fit) ==
    IF fit.exc # NoExc THEN Raised(fit.exc)
    ELSE Returned(CalculateOnDims(dimensionality_intersection(fit.self).val))

\* DegradationIndexCalculator.calculate, on a fresh SemanticVectorSpace
calculate(o, c) == CalculateOnFit(fit_transform(NewVectorSpace, o, c))

\* calculate_with_metrics, from the outcome of its own fit_transform on
MetricsOnFit(fit, result) ==
    IF fit.exc # NoExc THEN Raised(fit.exc)
    ELSE Returned([degradation_result |-> result.val,
                   cosine_distance |-> cosine_distance(fit.self).val,
                   kl_divergence |-> kl_divergence(fit.self).val,
                   vector_space |-> fit.self])

\* DegradationIndexCalculator.calculate_with_metrics
calculate_with_metrics(o, c) ==
    MetricsOnFit(fit_transform(NewVectorSpace, o, c), calculate(o, c))

----------------------------------------------------------------------------
(* Variable groups at rest, and what each specification leaves alone *)

degVars == <<text_origin, text_control, degradation, metrics>>
vsVars == <<vs, fitted, last_fit, ret>>
chainVars == <<data, metadata, link, forged, probe, verdict, hashes>>
engineVars == <<perturbed, clock, run1, run2>>

DegIdle ==
    /\ text_origin = <<>>
    /\ text_control = <<>>
    /\ degradation = None
    /\ metrics = None

VsIdle == vs = NewVectorSpace /\ fitted = FALSE /\ last_fit = None /\ ret = None

ChainIdle ==
    /\ data = None
    /\ metadata = None
    /\ link = None
    /\ forged = {}
    /\ probe = None
    /\ verdict = None
    /\ hashes = None

EngineIdle == perturbed = None /\ clock = 0 /\ run1 = None /\ run2 = None

invVars == <<invariance>>
pertVars == <<original_prompt, n_perturbations, perturbations, perturbations_again>>
temporalVars == <<logs, stats, temporal>>
trendVars == <<slope, direction>>
merkleVars == <<links, permuted, roots>>
entropyVars == <<entropy>>
alertVars == <<index, classified>>
batchVars == <<data_list, metadata_list, heap, created>>
auditVars == <<printed>>
monitorVars == <<monitored, monitor_ret>>
fieldsVars == <<relinked, reverdict>>
lateVars == <<entropyVars, alertVars, batchVars, auditVars, monitorVars, fieldsVars>>
restVars == <<invVars, pertVars, temporalVars, trendVars, merkleVars, lateVars>>

InvIdle == invariance = None

PertIdle ==
    /\ original_prompt = <<>>
    /\ n_perturbations = 0
    /\ perturbations = None
    /\ perturbations_again = None

TemporalIdle == logs = <<>> /\ stats = None /\ temporal = None

TrendIdle == slope = None /\ direction = None

MerkleIdle == links = <<>> /\ permuted = None /\ roots = None

EntropyIdle == entropy = None

AlertIdle == index = None /\ classified = None

BatchIdle == data_list = <<>> /\ metadata_list = None /\ heap = <<>> /\ created = None

AuditIdle == printed = None

MonitorIdle == monitored = 0 /\ monitor_ret = None

FieldsIdle == relinked = None /\ reverdict = None

LateIdle == EntropyIdle /\ AlertIdle /\ BatchIdle /\ AuditIdle /\ MonitorIdle /\ FieldsIdle

RestIdle == InvIdle /\ PertIdle /\ TemporalIdle /\ TrendIdle /\ MerkleIdle /\ LateIdle

----------------------------------------------------------------------------
(* Specification of the Degradation Index Calculator: a text pair is drawn, *)
(* then calculate and calculate_with_metrics are applied to it.             *)

InitDegradation ==
    /\ text_origin \in OriginTexts
    /\ text_control \in ControlTexts
    /\ degradation = None
    /\ metrics = None
    /\ VsIdle /\ ChainIdle /\ EngineIdle
    /\ RestIdle

Calculate ==
    /\ degradation = None
    /\ degradation' = calculate(text_origin, text_control)
    /\ UNCHANGED <<restVars, text_origin, text_control, metrics, vsVars, chainVars, engineVars>>

CalculateWithMetrics ==
    /\ metrics = None
    /\ metrics' = calculate_with_metrics(text_origin, text_control)
    /\ UNCHANGED <<restVars, text_origin, text_control, degradation, vsVars, chainVars, engineVars>>

NextDegradation == Calculate \/ CalculateWithMetrics

SpecDegradation == InitDegradation /\ [][NextDegradation]_vars

HasNoToken(text) == Tokenize(text) = <<>>

CalculateReturned == degradation # None /\ degradation.exc = NoExc

\* C1: whenever calculate returns, 0 <= I_D <= 1, I_D = 1 - dim_intersection/dim_V_O
\* when dim_V_O > 0 and I_D = 0 when dim_V_O = 0, and I_D = 0 exactly when
\* dim_intersection = dim_V_O.
C1_IndexRange ==
    CalculateReturned =>
        LET r == degradation.val
        IN /\ r.I_D[2] > 0
           /\ 0 <= r.I_D[1] /\ r.I_D[1] <= r.I_D[2]
           /\ (r.dim_V_O > 0 =>
                 r.I_D[1] * r.dim_V_O = (r.dim_V_O - r.dim_intersection) * r.I_D[2])
           /\ (r.dim_V_O = 0 => r.I_D[1] = 0)
           /\ (r.I_D[1] = 0 <=> r.dim_intersection = r.dim_V_O)

\* C1 witness: calculate returned a partial loss, 0 < I_D < 1
C1_Witness ==
    /\ CalculateReturned
    /\ degradation.val.dim_V_O > 0
    /\ 0 < degradation.val.dim_intersection
    /\ degradation.val.dim_intersection < degradation.val.dim_V_O

C8_DegenerateIsNeutral ==
    (degradation # None /\ (HasNoToken(text_origin) \/ HasNoToken(text_control))) =>
        /\ degradation.exc = NoExc
        /\ degradation.val.I_D[1] = 0
        /\ degradation.val.status = "ESTABLE"

\* C10: calculate(t, t) yields dim_intersection = dim_V_O = dim_V_C, I_D = 0 and
\* status ESTABLE, and the cosine distance of (t, t) is 0, for every text t.
C10_SelfComparison ==
    (text_origin = text_control /\ degradation # None /\ metrics # None) =>
        /\ degradation.exc = NoExc
        /\ degradation.val.dim_intersection = degradation.val.dim_V_O
        /\ degradation.val.dim_V_O = degradation.val.dim_V_C
        /\ degradation.val.I_D[1] = 0
        /\ degradation.val.status = "ESTABLE"
        /\ metrics.exc = NoExc
        /\ metrics.val.cosine_distance = 0

----------------------------------------------------------------------------
(* Specification of one caller-held SemanticVectorSpace: fit_transform and  *)
(* the five metric methods, called in any order.                            *)

FitTexts == TextsUpTo(MaxFitLen)

InitVectorSpace ==
    /\ vs = NewVectorSpace
    /\ fitted = FALSE
    /\ last_fit = None
    /\ ret = None
    /\ DegIdle /\ ChainIdle /\ EngineIdle
    /\ RestIdle

Call(op, out) == [op |-> op, out |-> out]

FitTransform ==
    \E o \in FitTexts, c \in FitTexts :
        LET fit == fit_transform(vs, o, c)
        IN /\ vs' = fit.self
           /\ fitted' = (fitted \/ fit.exc = NoExc)
           /\ last_fit' = IF fit.exc = NoExc THEN [o |-> o, c |-> c] ELSE last_fit
           /\ ret' = Call("fit_transform",
                          IF fit.exc = NoExc
                          THEN Returned(<<fit.self.V_O, fit.self.V_C>>)
                          ELSE Raised(fit.exc))
           /\ UNCHANGED <<restVars, degVars, chainVars, engineVars>>

CosineDistance ==
    /\ ret' = Call("cosine_distance", cosine_distance(vs))
    /\ UNCHANGED <<restVars, vs, fitted, last_fit, degVars, chainVars, engineVars>>

CosineSimilarityScore ==
    /\ ret' = Call("cosine_similarity_score", cosine_similarity_score(vs))
    /\ UNCHANGED <<restVars, vs, fitted, last_fit, degVars, chainVars, engineVars>>

KlDivergence ==
    /\ ret' = Call("kl_divergence", kl_divergence(vs))
    /\ UNCHANGED <<restVars, vs, fitted, last_fit, degVars, chainVars, engineVars>>

DimensionalityIntersection ==
    /\ ret' = Call("dimensionality_intersection", dimensionality_intersection(vs))
    /\ UNCHANGED <<restVars, vs, fitted, last_fit, degVars, chainVars, engineVars>>

AnalyzeSemanticOverlap ==
    /\ ret' = Call("analyze_semantic_overlap", analyze_semantic_overlap(vs))
    /\ UNCHANGED <<restVars, vs, fitted, last_fit, degVars, chainVars, engineVars>>

NextVectorSpace ==
    \/ FitTransform
    \/ CosineDistance
    \/ CosineSimilarityScore
    \/ KlDivergence
    \/ DimensionalityIntersection
    \/ AnalyzeSemanticOverlap

SpecVectorSpace == InitVectorSpace /\ [][NextVectorSpace]_vars

MetricNames ==
    {"cosine_distance", "cosine_similarity_score", "kl_divergence",
     "dimensionality_intersection", "analyze_semantic_overlap"}

MetricCalled == ret # None /\ ret.op \in MetricNames

\* C9: before any fit_transform has completed on the object, each of the five
\* metrics raises the not-initialized ValueError and returns nothing; once a
\* fit_transform has completed, none of them raises it.
C9_NotInitialized ==
    MetricCalled =>
        /\ (~fitted => ret.out = Raised("ValueError"))
        /\ (fitted => ret.out.exc = NoExc)

\* C9 witness: kl_divergence was called on an object that was never fitted
C9_Witness == MetricCalled /\ ~fitted /\ ret.op = "kl_divergence"

----------------------------------------------------------------------------
(* Sovereignty/integrity_chain.py *)

\* Data values: [str |-> characters], [bytes |-> byte values], [int |-> n],
\* [dict |-> function from string keys to str or int values].  A Python str
\* is the sequence of its characters.

Chars == {"a", "1"}
Bytes == {97, 254, 255}
DictKeys == <<"a", "b">>                     \* in sorted order
DictValues == { [int |-> 1], [str |-> <<"1">>] }

SeqsUpTo(S, n) == UNION { [1..k -> S] : k \in 0..n }

Subsets(q) == SUBSET { q[i] : i \in 1..Len(q) }

DataValues ==
    { [str |-> x] : x \in SeqsUpTo(Chars, MaxDataLen) }
    \cup { [bytes |-> x] : x \in SeqsUpTo(Bytes, MaxDataLen) }
    \cup { [int |-> n] : n \in 0..MaxDataInt }
    \cup { [dict |-> f] : f \in UNION { [K -> DictValues] : K \in Subsets(DictKeys) } }

IsStr(d) == DOMAIN d = {"str"}
IsBytes(d) == DOMAIN d = {"bytes"}
IsDict(d) == DOMAIN d = {"dict"}

\* str(n) for n >= 0
RECURSIVE IntToStr(_)
IntToStr(n) ==
    LET digit == <<"0", "1", "2", "3", "4", "5", "6", "7", "8", "9">>[(n % 10) + 1]
    IN IF n < 10 THEN <<digit>> ELSE IntToStr(n \div 10) \o <<digit>>

\* bytes.decode('utf-8', errors='replace') on ASCII bytes and on bytes that
\* begin no UTF-8 sequence (0xFE, 0xFF)
DecodeByte(b) ==
    CASE b = 97 -> "a"
      [] b = 49 -> "1"
      [] OTHER -> "U+FFFD"

DecodeReplace(bs) == [i \in 1..Len(bs) |-> DecodeByte(bs[i])]

\* json.dumps of a str: quotes, with quote and backslash escaped
RECURSIVE JsonEscape(_)
JsonEscape(cs) ==
    IF cs = <<>> THEN <<>>
    ELSE (IF Head(cs) \in {"\"", "\\"} THEN <<"\\", Head(cs)>> ELSE <<Head(cs)>>)
         \o JsonEscape(Tail(cs))

JsonStr(cs) == <<"\"">> \o JsonEscape(cs) \o <<"\"">>

JsonValue(v) == IF IsStr(v) THEN JsonStr(v.str) ELSE IntToStr(v.int)

\* json.dumps(d, sort_keys=True): the items of the keys from position i on
RECURSIVE JsonItems(_, _, _)
JsonItems(f, i, first) ==
    IF i > Len(DictKeys) THEN <<>>
    ELSE IF DictKeys[i] \notin DOMAIN f THEN JsonItems(f, i + 1, first)
    ELSE (IF first THEN <<>> ELSE <<",", " ">>)
         \o JsonStr(<<DictKeys[i]>>) \o <<":", " ">> \o JsonValue(f[DictKeys[i]])
         \o JsonItems(f, i + 1, FALSE)

JsonDumps(f) == <<"{">> \o JsonItems(f, 1, TRUE) \o <<"}">>

\* IntegrityChain._serialize_data
serialize_data(d) ==
    IF IsDict(d) THEN JsonDumps(d.dict)
    ELSE IF IsStr(d) THEN d.str
    ELSE IF IsBytes(d) THEN DecodeReplace(d.bytes)
    ELSE IntToStr(d.int)

\* hashlib.sha256(s.encode('utf-8')).hexdigest(), collision free
Sha256(s) == [sha256 |-> s]

ROOT_HASH == "606a347f6e2502a23179c18e4a637ca15138aa2f04194c6e6a578f8d1f8d7287"
CID == "bafybeihqz3x7k5t2m4n6p8r9s1v3w5y7a9c1e3g5i7k9m1o3q5s7u9w1y3"

\* IntegrityChain.compute_data_hash
compute_data_hash(d) == Sha256(serialize_data(d))

\* mutant: the anchors appended without the "||" separators
compute_chain_hash_NoSeparators(d) ==
    Sha256(serialize_data(d) \o <<ROOT_HASH>> \o <<CID>>)

\* IntegrityChain.compute_chain_hash: f"{data_str}||{ROOT_HASH}||{CID}"
compute_chain_hash(d) ==
    Sha256(serialize_data(d) \o <<"|", "|">> \o <<ROOT_HASH>> \o <<"|", "|">> \o <<CID>>)

\* datetime.utcnow().isoformat() + 'Z'
Timestamp(t) == [utc |-> t]

EmptyDict == [k \in {} |-> None]

\* metadata['created_at'] = timestamp
WithCreatedAt(md, ts) ==
    [k \in DOMAIN md \cup {"created_at"} |-> IF k = "created_at" THEN ts ELSE md[k]]

\* IntegrityChain.create_link, at time t
create_link(d, md, t) ==
    [data_hash |-> compute_data_hash(d),
     chain_hash |-> compute_chain_hash(d),
     root_hash |-> ROOT_HASH,
     cid |-> CID,
     timestamp |-> Timestamp(t),
     metadata |-> WithCreatedAt(IF md = None THEN EmptyDict ELSE md.dict, Timestamp(t))]

\* mutant: the cid anchor is not compared
verify_link_SkipsCid(d, l) ==
    IF l.root_hash # ROOT_HASH THEN FALSE
    ELSE compute_data_hash(d) = l.data_hash /\ compute_chain_hash(d) = l.chain_hash

\* mutant: the link's created_at must be its timestamp
verify_link_ChecksCreatedAt(d, l) ==
    IF l.root_hash # ROOT_HASH THEN FALSE
    ELSE IF l.cid # CID THEN FALSE
    ELSE IF "created_at" \notin DOMAIN l.metadata THEN FALSE
    ELSE /\ l.metadata["created_at"] = l.timestamp
         /\ compute_data_hash(d) = l.data_hash
         /\ compute_chain_hash(d) = l.chain_hash

\* IntegrityChain.verify_link
verify_link(d, l) ==
    IF l.root_hash # ROOT_HASH THEN FALSE
    ELSE IF l.cid # CID THEN FALSE
    ELSE LET data_valid == compute_data_hash(d) = l.data_hash
             chain_valid == compute_chain_hash(d) = l.chain_hash
         IN data_valid /\ chain_valid

\* repr of a bytes object, as str(data) gives it
ReprByte(b) ==
    CASE b = 97 -> <<"a">>
      [] b = 49 -> <<"1">>
      [] b = 254 -> <<"\\", "x", "f", "e">>
      [] OTHER -> <<"\\", "x", "f", "f">>

RECURSIVE ReprBytes(_)
ReprBytes(bs) == IF bs = <<>> THEN <<>> ELSE ReprByte(Head(bs)) \o ReprBytes(Tail(bs))

\* str(data) of a str, bytes or int
PyStr(d) ==
    IF IsStr(d) THEN d.str
    ELSE IF IsBytes(d) THEN <<"b", "'">> \o ReprBytes(d.bytes) \o <<"'">>
    ELSE IntToStr(d.int)

\* CryptographicProofGenerator._compute_chain_hash (Sovereignty/cryptographic_proof.py)
proof_compute_chain_hash(d) ==
    LET data_str == IF IsDict(d) THEN JsonDumps(d.dict) ELSE PyStr(d)
    IN Sha256(data_str \o <<"|", "|">> \o <<ROOT_HASH>> \o <<"|", "|">> \o <<CID>>)

\* mutant: the hash is salted with the time of the call
compute_integrity_hash_Timed(s) == Sha256(s \o <<ROOT_HASH>> \o <<CID>> \o <<Timestamp(clock)>>)

\* InvarianceEngine.compute_integrity_hash (Core/invariance_engine.py):
\* f"{data}{ROOT_HASH}{CID}"
compute_integrity_hash(s) == Sha256(s \o <<ROOT_HASH>> \o <<CID>>)

----------------------------------------------------------------------------
(* Specification of the Integrity Chain: the data, the metadata and the     *)
(* data later presented for verification are drawn; a link is created, the  *)
(* caller may replace fields of it, and it is verified.                     *)

MetadataValues == { None, [dict |-> EmptyDict], [dict |-> [type |-> [str |-> <<"a">>]]] }

LinkFields == {"root_hash", "cid", "data_hash", "chain_hash"}

\* what a caller puts in a field of the link: the other anchor, or the hash
\* of the data it presents
ForgedValue(field) ==
    CASE field = "root_hash" -> CID
      [] field = "cid" -> ROOT_HASH
      [] field = "data_hash" -> compute_data_hash(probe)
      [] OTHER -> compute_chain_hash(probe)

InitChain ==
    /\ data \in DataValues
    /\ metadata \in MetadataValues
    /\ probe \in DataValues
    /\ link = None
    /\ forged = {}
    /\ verdict = None
    /\ hashes = None
    /\ DegIdle /\ VsIdle /\ EngineIdle
    /\ RestIdle

CreateLink ==
    /\ link = None
    /\ link' = create_link(data, metadata, clock)
    /\ clock' = clock + 1
    /\ UNCHANGED <<restVars, data, metadata, forged, probe, verdict, hashes, perturbed, run1, run2, degVars, vsVars>>

ForgeField ==
    \E field \in LinkFields \ forged :
        /\ link # None
        /\ verdict = None
        /\ link' = [link EXCEPT ![field] = ForgedValue(field)]
        /\ forged' = forged \cup {field}
        /\ UNCHANGED <<restVars, data, metadata, probe, verdict, hashes, engineVars, degVars, vsVars>>

VerifyLink ==
    /\ link # None
    /\ verdict = None
    /\ verdict' = Returned(verify_link(probe, link))
    /\ UNCHANGED <<restVars, data, metadata, link, forged, probe, hashes, engineVars, degVars, vsVars>>

\* the three implementations of the chain hash, on one record string
ComputeHashes ==
    /\ link = None
    /\ hashes = None
    /\ IsStr(data)
    /\ hashes' = [engine |-> compute_integrity_hash(data.str),
                  chain |-> compute_chain_hash(data),
                  proof |-> proof_compute_chain_hash(data)]
    /\ UNCHANGED <<restVars, data, metadata, link, forged, probe, verdict, engineVars, degVars, vsVars>>

NextChain == CreateLink \/ ForgeField \/ VerifyLink \/ ComputeHashes

SpecChain == InitChain /\ [][NextChain]_vars

Verified == verdict # None

\* C3: a link built from d rejects every other data value d'
C3_TamperEvidence ==
    (Verified /\ forged = {} /\ probe # data) => verdict = Returned(FALSE)

C5_RoundTrip ==
    (link # None /\ forged = {}) =>
        /\ link.data_hash = Sha256(serialize_data(data))
        /\ link.chain_hash =
             Sha256(serialize_data(data) \o <<"|", "|", ROOT_HASH, "|", "|", CID>>)
        /\ link.root_hash = ROOT_HASH
        /\ link.cid = CID
        /\ ((Verified /\ probe = data) => verdict = Returned(TRUE))

\* C5 witness: a dict, created without metadata, verified against itself
C5_Witness ==
    /\ Verified
    /\ forged = {}
    /\ probe = data
    /\ IsDict(data)
    /\ metadata = None
    /\ verdict = Returned(TRUE)

\* C6: the engine's integrity hash, the chain's chain hash and the proof
\* generator's chain hash of one record string are the same value,
\* Hash(data || "||" || ROOT_HASH || "||" || CID)
C6_OneChainHash ==
    hashes # None =>
        /\ hashes.engine = hashes.chain
        /\ hashes.chain = hashes.proof
        /\ hashes.chain = Sha256(data.str \o <<"|", "|", ROOT_HASH, "|", "|", CID>>)

----------------------------------------------------------------------------
(* Core/shannon_entropy.py *)

\* ShannonEntropyCalculator.tokenize: lowercased words longer than one character
MinLexemeLen == 2

IsLexeme(w) == Len(w) >= MinLexemeLen

\* re.sub(r'[^\w\s]', '', ...), on the characters of the model
IsWordChar(ch) == ch # "."

StripPunctuation(w) == SelectSeq(w, IsWordChar)

\* mutant: the punctuation is left in the tokens
tokenize_KeepsPunctuation(text) ==
    SelectSeq([i \in 1..Len(text) |-> LowerWord(text[i])], IsLexeme)

\* ShannonEntropyCalculator.tokenize
tokenize(text) ==
    SelectSeq([i \in 1..Len(text) |-> StripPunctuation(LowerWord(text[i]))], IsLexeme)

\* floor(log2(n) * Scale) for n = 1..8
Log2Table == <<0, 10000, 15849, 20000, 23219, 25849, 28073, 30000>>

\* np.unique(tokens, return_counts=True)
CountOf(tok, toks) == Cardinality({ i \in 1..Len(toks) : toks[i] = tok })

\* ShannonEntropyCalculator.calculate_entropy:
\* -sum p log2 p = log2 N - (sum c log2 c) / N
calculate_entropy(text) ==
    LET toks == tokenize(text)
        U == { toks[i] : i \in 1..Len(toks) }
    IN IF toks = <<>> THEN 0
       ELSE Log2Table[Len(toks)]
            - (SumOver(U, [u \in U |-> CountOf(u, toks) * Log2Table[CountOf(u, toks)]])
               \div Len(toks))

----------------------------------------------------------------------------
(* Core/truth_invariance.py *)

INVARIANCE_THRESHOLD_PCT == 15       \* INVARIANCE_THRESHOLD = 0.15

InvarianceThreshold == (INVARIANCE_THRESHOLD_PCT * Scale) \div 100

\* the loop of calculate_gradient: one vs_space object serves every
\* comparison, and a comparison that raises is skipped
RECURSIVE GradientDistances(_, _, _)

\* mutant: a comparison that raises contributes a zero distance
GradientStep_ZeroOnError(fit, original_response, rest) ==
    (IF fit.exc # NoExc THEN <<0>> ELSE <<cosine_distance(fit.self).val>>)
    \o GradientDistances(fit.self, original_response, rest)

\* the try block, after fit_transform
GradientStep(fit, original_response, rest) ==
    (IF fit.exc # NoExc THEN <<>> ELSE <<cosine_distance(fit.self).val>>)
    \o GradientDistances(fit.self, original_response, rest)

GradientDistances(self, original_response, rest) ==
    IF rest = <<>> THEN <<>>
    ELSE GradientStep(fit_transform(self, original_response, Head(rest)),
                      original_response, Tail(rest))

RECURSIVE SumSeq(_)
SumSeq(q) == IF q = <<>> THEN 0 ELSE Head(q) + SumSeq(Tail(q))

\* np.mean and np.std (population) of a non-empty list
Mean(q) == SumSeq(q) \div Len(q)

SquaredDeviations(q, mu) == [i \in 1..Len(q) |-> (q[i] - mu) * (q[i] - mu)]

Std(q) == ISqrt(SumSeq(SquaredDeviations(q, Mean(q))) \div Len(q))

ZeroGradient == [gradient_magnitude |-> 0, mean_distance |-> 0, std_distance |-> 0]

\* calculate_gradient, from the list of distances on
GradientOfDistances(distances) ==
    IF distances = <<>> THEN ZeroGradient
    ELSE [gradient_magnitude |-> Mean(distances),
          mean_distance |-> Mean(distances),
          std_distance |-> Std(distances)]

\* TruthInvarianceValidator.calculate_gradient
calculate_gradient(original_response, perturbed_responses) ==
    IF perturbed_responses = <<>> THEN ZeroGradient
    ELSE GradientOfDistances(GradientDistances(NewVectorSpace, original_response,
                                               perturbed_responses))

\* mutant: the score is not clamped at zero
Max_Unclamped(a, b) == b

Max(a, b) == IF a >= b THEN a ELSE b

\* validate_invariance, from the gradient data on
InvarianceResult(gradient_data, perturbed_responses) ==
    [gradient_magnitude |-> gradient_data.gradient_magnitude,
     is_invariant |-> gradient_data.gradient_magnitude < InvarianceThreshold,
     perturbation_responses |-> perturbed_responses,
     stability_score |->
         Max(0, Scale - ((gradient_data.gradient_magnitude * Scale)
                         \div InvarianceThreshold)),
     bias_detected |-> gradient_data.gradient_magnitude >= InvarianceThreshold,
     mean_distance |-> gradient_data.mean_distance,
     std_distance |-> gradient_data.std_distance]

\* TruthInvarianceValidator.validate_invariance
validate_invariance(original_response, perturbed_responses) ==
    InvarianceResult(calculate_gradient(original_response, perturbed_responses),
                     perturbed_responses)

----------------------------------------------------------------------------
(* Core/invariance_engine.py *)

\* f"{x:.6f}" of a fixed-point value x >= 0: the digits, as one field
FracDigits(n) ==
    <<IntToStr((n \div 1000) % 10)[1], IntToStr((n \div 100) % 10)[1],
      IntToStr((n \div 10) % 10)[1], IntToStr(n % 10)[1]>>

Fmt6(x) == IntToStr(x \div Scale) \o <<".">> \o FracDigits(x % Scale) \o <<"0", "0">>

\* the float of a rational, in fixed point
RatToFixed(r) == (r[1] * Scale) \div r[2]

BoolStr(b) == IF b THEN "True" ELSE "False"

\* section 4 of analyze: the defaults, or validate_invariance
InvarianceOf(o, p) ==
    IF p # None /\ p.list # <<>>
    THEN validate_invariance(o, p.list)
    ELSE [is_invariant |-> TRUE, gradient_magnitude |-> 0, stability_score |-> Scale]

\* section 5 of analyze: the record that is hashed
IntegrityData(entropy_O, entropy_C, I_D, inv, cosine_dist, kl_div) ==
    <<"H_O:", Fmt6(entropy_O), "|H_C:", Fmt6(entropy_C),
      "|I_D:", Fmt6(RatToFixed(I_D)),
      "|Inv:", BoolStr(inv.is_invariant),
      "|Cos:", Fmt6(cosine_dist), "|KL:", kl_div,
      "|Grad:", Fmt6(inv.gradient_magnitude), "|Stab:", Fmt6(inv.stability_score)>>

EntropyLoss(entropy_O, entropy_C) ==
    IF entropy_O > 0
    THEN (((entropy_O - entropy_C) * Scale) \div entropy_O) * 100
    ELSE 0

\* section 6 of analyze: the IntegrityMatrix
IntegrityMatrix(entropy_O, entropy_C, d, inv, cosine_dist, kl_div, t) ==
    [root_hash |-> ROOT_HASH,
     cid |-> CID,
     timestamp |-> Timestamp(t),
     entropy_O |-> entropy_O,
     entropy_C |-> entropy_C,
     entropy_loss_percentage |-> EntropyLoss(entropy_O, entropy_C),
     degradation_index |-> d.I_D,
     degradation_status |-> d.status,
     interference_detected |-> d.interference_detected,
     truth_invariance |-> inv.is_invariant,
     gradient_magnitude |-> inv.gradient_magnitude,
     stability_score |-> inv.stability_score,
     cosine_distance |-> cosine_dist,
     kl_divergence |-> kl_div,
     dim_V_O |-> d.dim_V_O,
     dim_V_C |-> d.dim_V_C,
     dim_intersection |-> d.dim_intersection,
     integrity_hash |->
         compute_integrity_hash(
             IntegrityData(entropy_O, entropy_C, d.I_D, inv, cosine_dist, kl_div))]

\* analyze, from the outcomes of calculate and of its own fit_transform on
AnalyzeOnFit(o, c, p, t, deg, fit) ==
    IF deg.exc # NoExc THEN Raised(deg.exc)
    ELSE IF fit.exc # NoExc THEN Raised(fit.exc)
    ELSE Returned(IntegrityMatrix(calculate_entropy(o), calculate_entropy(c), deg.val,
                                  InvarianceOf(o, p),
                                  cosine_distance(fit.self).val,
                                  kl_divergence(fit.self).val, t))

\* InvarianceEngine.analyze at time t: the IntegrityMatrix, or the exception
analyze(o, c, p, t) ==
    AnalyzeOnFit(o, c, p, t, calculate(o, c), fit_transform(NewVectorSpace, o, c))

----------------------------------------------------------------------------
(* Specification of the Invariance Engine: the arguments of analyze are     *)
(* drawn; analyze runs on them twice, with other calls of the engine's      *)
(* components before and between the two runs.  Every call takes one tick.  *)

EngineWords == { <<"a", "a">>, <<"b", "b">>, <<"c">> }

EngineTexts == UNION { [1..k -> EngineWords] : k \in 0..MaxEngineLen }

PerturbedChoices(o, c) ==
    { None, [list |-> <<>>], [list |-> <<o>>], [list |-> <<c>>],
      [list |-> <<c, o>>], [list |-> << <<>>, c >>] }

InitEngine ==
    /\ text_origin \in EngineTexts
    /\ text_control \in EngineTexts
    /\ perturbed \in PerturbedChoices(text_origin, text_control)
    /\ clock = 0
    /\ run1 = None
    /\ run2 = None
    /\ degradation = None
    /\ metrics = None
    /\ VsIdle /\ ChainIdle
    /\ RestIdle

\* what is observed of one run of analyze
RunOf(o, c, p, t) ==
    [vectors |-> fit_transform(NewVectorSpace, o, c),
     degradation |-> calculate(o, c),
     matrix |-> analyze(o, c, p, t)]

Analyze ==
    /\ clock < MaxClock
    /\ run2 = None
    /\ clock' = clock + 1
    /\ \/ /\ run1 = None
          /\ run1' = RunOf(text_origin, text_control, perturbed, clock)
          /\ run2' = run2
       \/ /\ run1 # None
          /\ run2' = RunOf(text_origin, text_control, perturbed, clock)
          /\ run1' = run1
    /\ UNCHANGED <<restVars, text_origin, text_control, perturbed, degradation, metrics,
                   vsVars, chainVars>>

\* analyze on other arguments
AnalyzeOther ==
    /\ clock < MaxClock
    /\ clock' = clock + 1
    /\ ret' = Call("analyze", analyze(text_control, text_origin, None, clock))
    /\ UNCHANGED <<restVars, vs, fitted, last_fit, degVars, chainVars, perturbed, run1, run2>>

\* engine.degradation_calc.calculate on other arguments
EngineCalculate ==
    /\ clock < MaxClock
    /\ clock' = clock + 1
    /\ ret' = Call("calculate", calculate(text_control, text_origin))
    /\ UNCHANGED <<restVars, vs, fitted, last_fit, degVars, chainVars, perturbed, run1, run2>>

\* engine.invariance_validator.validate_invariance on other arguments
EngineValidate ==
    /\ clock < MaxClock
    /\ clock' = clock + 1
    /\ ret' = Call("validate_invariance",
                    Returned(validate_invariance(text_control, <<text_origin>>)))
    /\ UNCHANGED <<restVars, vs, fitted, last_fit, degVars, chainVars, perturbed, run1, run2>>

NextEngine == Analyze \/ AnalyzeOther \/ EngineCalculate \/ EngineValidate

SpecEngine == InitEngine /\ [][NextEngine]_vars

\* an IntegrityMatrix without its timestamp
Untimed(out) ==
    IF out.exc # NoExc THEN out
    ELSE Returned([out.val EXCEPT !.timestamp = Timestamp(0)])

----------------------------------------------------------------------------
(* Specification of the Truth Invariance Validator: an original response    *)
(* and a list of perturbed responses are drawn, and validate_invariance is  *)
(* applied to them.                                                         *)

InvWords == { <<"a", "a">>, <<"c">> }

InvTexts == UNION { [1..k -> InvWords] : k \in 0..MaxInvLen }

PerturbedLists == UNION { [1..k -> InvTexts] : k \in 0..MaxPerturbed }

InitInvariance ==
    /\ text_origin \in InvTexts
    /\ perturbed \in { [list |-> q] : q \in PerturbedLists }
    /\ invariance = None
    /\ text_control = <<>>
    /\ degradation = None
    /\ metrics = None
    /\ clock = 0 /\ run1 = None /\ run2 = None
    /\ VsIdle /\ ChainIdle /\ PertIdle /\ TemporalIdle /\ TrendIdle /\ MerkleIdle /\ LateIdle

ValidateInvariance ==
    /\ invariance = None
    /\ invariance' = Returned(validate_invariance(text_origin, perturbed.list))
    /\ UNCHANGED <<degVars, vsVars, chainVars, engineVars, pertVars, temporalVars, trendVars, merkleVars, lateVars>>

NextInvariance == ValidateInvariance

SpecInvariance == InitInvariance /\ [][NextInvariance]_vars

ComparisonRaises(o, p) == fit_transform(NewVectorSpace, o, p).exc # NoExc

\* the distances of the comparisons that succeed, each on a space of its own
RECURSIVE SucceededDistances(_, _)
SucceededDistances(o, q) ==
    IF q = <<>> THEN <<>>
    ELSE (IF ComparisonRaises(o, Head(q)) THEN <<>>
          ELSE <<cosine_distance(fit_transform(NewVectorSpace, o, Head(q)).self).val>>)
         \o SucceededDistances(o, Tail(q))

\* C12: validate_invariance returns whatever comparison raises; the mean and
\* the standard deviation are those of the distances of the comparisons that
\* succeeded, and all three figures are 0 when none did or the list is empty
C12_SkipsFailedComparisons ==
    invariance # None =>
        LET d == SucceededDistances(text_origin, perturbed.list)
            r == invariance.val
        IN /\ invariance.exc = NoExc
           /\ IF d = <<>>
              THEN r.gradient_magnitude = 0 /\ r.mean_distance = 0 /\ r.std_distance = 0
              ELSE /\ r.mean_distance = SumSeq(d) \div Len(d)
                   /\ r.gradient_magnitude = r.mean_distance
                   /\ r.std_distance = Std(d)

\* C12 witness: the first comparison succeeds, the second one raises
C12_Witness ==
    /\ invariance # None
    /\ Len(perturbed.list) = 2
    /\ ~ComparisonRaises(text_origin, perturbed.list[1])
    /\ ComparisonRaises(text_origin, perturbed.list[2])
    /\ invariance.val.mean_distance = Scale

----------------------------------------------------------------------------
(* TruthInvarianceValidator.generate_perturbations.  A prompt is the        *)
(* sequence of its characters.                                              *)

\* str.rstrip('.')
RECURSIVE RStripDot(_)
RStripDot(cs) ==
    IF cs # <<>> /\ cs[Len(cs)] = "." THEN RStripDot(SubSeq(cs, 1, Len(cs) - 1)) ELSE cs

\* the eight rewrites, in the order of the list
Perturbations(p) ==
    << p,
       RStripDot(p) \o <<".">>,
       <<"P", "o", "r", " ", "f", "a", "v", "o", "r", ",", " ">> \o LowerWord(p),
       p \o <<" ", "G", "r", "a", "c", "i", "a", "s", ".">>,
       <<"N", "e", "c", "e", "s", "i", "t", "o", " ", "q", "u", "e", ":", " ">>
           \o LowerWord(p),
       RStripDot(p) \o <<"?">>,
       <<"M", "e", " ", "g", "u", "s", "t", "a", "r", "í", "a", " ",
         "s", "a", "b", "e", "r", ":", " ">> \o LowerWord(p),
       p \o <<" ", "R", "e", "s", "p", "o", "n", "d", "e", " ", "d", "e", " ",
              "f", "o", "r", "m", "a", " ", "c", "l", "a", "r", "a", ".">> >>

\* mutant: duplicates are kept
FromKeys_KeepsDuplicates(q) == q

\* list(dict.fromkeys(q)): the first occurrence of every element, in order
RECURSIVE FromKeys(_)
FromKeys(q) ==
    IF q = <<>> THEN <<>>
    ELSE LET front == FromKeys(SubSeq(q, 1, Len(q) - 1))
             last == q[Len(q)]
         IN IF \E i \in 1..Len(front) : front[i] = last THEN front
            ELSE Append(front, last)

\* q[:n] for n >= 0
Slice(q, n) == SubSeq(q, 1, IF n < Len(q) THEN n ELSE Len(q))

generate_perturbations(p, n) == Slice(FromKeys(Perturbations(p)), n)

PromptChars == {"A", "a", "."}

Prompts == UNION { [1..k -> PromptChars] : k \in 0..MaxPromptLen }

InitPerturbations ==
    /\ original_prompt \in Prompts
    /\ n_perturbations \in 0..MaxRequested
    /\ perturbations = None
    /\ perturbations_again = None
    /\ DegIdle /\ VsIdle /\ ChainIdle /\ EngineIdle /\ InvIdle /\ TemporalIdle /\ TrendIdle /\ MerkleIdle /\ LateIdle

GeneratePerturbations ==
    /\ perturbations = None
    /\ perturbations' = Returned(generate_perturbations(original_prompt, n_perturbations))
    /\ UNCHANGED <<original_prompt, n_perturbations, perturbations_again,
                   degVars, vsVars, chainVars, engineVars, invVars,
                   temporalVars, trendVars, merkleVars, lateVars>>

GenerateAgain ==
    /\ perturbations # None
    /\ perturbations_again = None
    /\ perturbations_again' =
           Returned(generate_perturbations(original_prompt, n_perturbations))
    /\ UNCHANGED <<original_prompt, n_perturbations, perturbations,
                   degVars, vsVars, chainVars, engineVars, invVars,
                   temporalVars, trendVars, merkleVars, lateVars>>

NextPerturbations == GeneratePerturbations \/ GenerateAgain

SpecPerturbations == InitPerturbations /\ [][NextPerturbations]_vars

\* C13: generate_perturbations(prompt, n) returns at most n strings, pairwise
\* distinct, the prompt first whenever the list is not empty, and the same
\* list on a second call with the same arguments
C13_Perturbations ==
    perturbations # None =>
        LET r == perturbations.val
        IN /\ Len(r) <= n_perturbations
           /\ \A i, j \in 1..Len(r) : r[i] = r[j] => i = j
           /\ r # <<>> => r[1] = original_prompt
           /\ perturbations_again # None => perturbations_again = perturbations

\* C13 witness: a prompt ending in one full stop, whose second rewrite is the
\* prompt itself, asked for eight and called twice
C13_Witness ==
    /\ perturbations_again # None
    /\ original_prompt = <<"A", ".">>
    /\ n_perturbations = 8
    /\ Len(perturbations.val) = 7
    /\ perturbations.val[1] = original_prompt

----------------------------------------------------------------------------
(* Exact rational arithmetic, for statistics.mean and the least-squares     *)
(* slope.  A rational is <<num, den>> with den > 0.                         *)

Abs(n) == IF n < 0 THEN -n ELSE n

RECURSIVE GCD(_, _)
GCD(a, b) == IF b = 0 THEN a ELSE GCD(b, a % b)

RatReduce(n, d, g) == IF d < 0 THEN <<(-n) \div g, (-d) \div g>> ELSE <<n \div g, d \div g>>

\* n/d in lowest terms, d # 0
RatNorm(n, d) == RatReduce(n, d, GCD(Abs(n), Abs(d)))

RatAdd(a, b) == RatNorm(a[1] * b[2] + b[1] * a[2], a[2] * b[2])
RatSub(a, b) == RatNorm(a[1] * b[2] - b[1] * a[2], a[2] * b[2])
RatMul(a, b) == RatNorm(a[1] * b[1], a[2] * b[2])
RatDiv(a, b) == RatNorm(a[1] * b[2], a[2] * b[1])
RatLt(a, b) == a[1] * b[2] < b[1] * a[2]
RatAbs(a) == <<Abs(a[1]), a[2]>>

RECURSIVE RatSum(_)
RatSum(q) == IF q = <<>> THEN Rat(0, 1) ELSE RatAdd(Head(q), RatSum(Tail(q)))

\* statistics.mean
RatMean(q) == RatDiv(RatSum(q), Rat(Len(q), 1))

SquaredDeviationsFrom(q, mu) ==
    [i \in 1..Len(q) |-> RatMul(RatSub(q[i], mu), RatSub(q[i], mu))]

\* statistics.stdev (sample standard deviation), in thousandths
SqrtMilli(variance) == ISqrt((variance[1] * 1000000) \div variance[2])

stdev(q) ==
    SqrtMilli(RatDiv(RatSum(SquaredDeviationsFrom(q, RatMean(q))), Rat(Len(q) - 1, 1)))

----------------------------------------------------------------------------
(* Audit/degradation_monitor.py: DegradationMonitor.  Timestamps are UTC    *)
(* seconds.  The metrics dict of a MonitoringResult (entropies and          *)
(* dimensions) is read by nothing below and is left out.                    *)

MONITOR_CRITICAL_THRESHOLD == Rat(2, 5)
MONITOR_HIGH_THRESHOLD == Rat(1, 4)
MONITOR_MEDIUM_THRESHOLD == Rat(3, 20)

\* DegradationMonitor._determine_severity
determine_severity(I_D) ==
    IF RatGeq(I_D, MONITOR_CRITICAL_THRESHOLD) THEN "CRITICAL"
    ELSE IF RatGeq(I_D, MONITOR_HIGH_THRESHOLD) THEN "HIGH"
    ELSE IF RatGeq(I_D, MONITOR_MEDIUM_THRESHOLD) THEN "MEDIUM"
    ELSE "LOW"

\* DegradationMonitor.__init__: self.stats
NewStats ==
    [total_monitored |-> 0, interventions_detected |-> 0, critical_alerts |-> 0,
     high_alerts |-> 0, medium_alerts |-> 0, low_alerts |-> 0]

Bump(n, cond) == IF cond THEN n + 1 ELSE n

\* mutant: an interaction of severity LOW is not counted
update_stats_LowUncounted(st, result) ==
    [total_monitored |-> st.total_monitored + 1,
     interventions_detected |->
         Bump(st.interventions_detected, result.intervention_detected),
     critical_alerts |-> Bump(st.critical_alerts, result.severity_level = "CRITICAL"),
     high_alerts |-> Bump(st.high_alerts, result.severity_level = "HIGH"),
     medium_alerts |-> Bump(st.medium_alerts, result.severity_level = "MEDIUM"),
     low_alerts |-> st.low_alerts]

\* DegradationMonitor._update_stats
update_stats(st, result) ==
    [total_monitored |-> st.total_monitored + 1,
     interventions_detected |->
         Bump(st.interventions_detected, result.intervention_detected),
     critical_alerts |-> Bump(st.critical_alerts, result.severity_level = "CRITICAL"),
     high_alerts |-> Bump(st.high_alerts, result.severity_level = "HIGH"),
     medium_alerts |-> Bump(st.medium_alerts, result.severity_level = "MEDIUM"),
     low_alerts |-> Bump(st.low_alerts, result.severity_level = "LOW")]

\* monitor_interaction, after calculate: the MonitoringResult stamped with
\* the clock reading now
MonitoringResult(deg, now) ==
    IF deg.exc # NoExc THEN Raised(deg.exc)
    ELSE Returned([timestamp |-> Timestamp(now),
                   degradation |-> deg.val,
                   intervention_detected |->
                       RatGeq(deg.val.I_D, MONITOR_CRITICAL_THRESHOLD),
                   severity_level |-> determine_severity(deg.val.I_D),
                   alert_triggered |-> RatGeq(deg.val.I_D, MONITOR_MEDIUM_THRESHOLD)])

\* DegradationMonitor.monitor_log / monitor_interaction, without the update
\* of the statistics: the timestamp of the log is not among the arguments
monitor_log(log, now) ==
    MonitoringResult(calculate(log.response_origin, log.response_control), now)

\* DegradationMonitor.batch_monitor from log i on: the results, the
\* statistics, and the exception that ended the loop
RECURSIVE batch_monitor(_, _, _, _, _)

BatchStep(st, results, batch, readings, i, r) ==
    IF r.exc # NoExc THEN [exc |-> r.exc, results |-> results, stats |-> st]
    ELSE batch_monitor(update_stats(st, r.val), Append(results, r.val),
                       batch, readings, i + 1)

batch_monitor(st, results, batch, readings, i) ==
    IF i > Len(batch) THEN [exc |-> NoExc, results |-> results, stats |-> st]
    ELSE BatchStep(st, results, batch, readings, i, monitor_log(batch[i], readings[i]))

----------------------------------------------------------------------------
(* Audit/temporal_analysis.py: TemporalAnalyzer *)

SECONDS_PER_DAY == 86400
STABLE_THRESHOLD == Rat(1, 20)
MODERATE_THRESHOLD == Rat(3, 20)
HIGH_BASELINE == Rat(7, 20)
HIGH_INTERVENTIONS == Rat(1, 2)

\* TemporalAnalyzer._parse_timestamp
parse_timestamp(ts) == ts.utc

RECURSIVE GCDAll(_)
GCDAll(q) == IF q = <<>> THEN 0 ELSE GCD(Abs(Head(q)), GCDAll(Tail(q)))

ToRats(q) == [i \in 1..Len(q) |-> Rat(q[i], 1)]

Products(xs, mean_x, ys, mean_y) ==
    [i \in 1..Len(xs) |-> RatMul(RatSub(xs[i], mean_x), RatSub(ys[i], mean_y))]

\* the regression of ys on xs: numerator / denominator, 0 when the
\* denominator is 0
Regression(numerator, denominator) ==
    IF denominator[1] = 0 THEN Rat(0, 1) ELSE RatDiv(numerator, denominator)

LeastSquares(xs, mean_x, ys, mean_y) ==
    Regression(RatSum(Products(xs, mean_x, ys, mean_y)),
               RatSum(SquaredDeviationsFrom(xs, mean_x)))

\* the slope over times measured in units of u seconds, per day
SlopePerDay(elapsed, u, I_D_values) ==
    IF u = 0 THEN Rat(0, 1)
    ELSE RatMul(RatNorm(SECONDS_PER_DAY, u),
                LeastSquares(ToRats([i \in 1..Len(elapsed) |-> elapsed[i] \div u]),
                             RatMean(ToRats([i \in 1..Len(elapsed) |-> elapsed[i] \div u])),
                             I_D_values, RatMean(I_D_values)))

ElapsedSeconds(timestamps) ==
    [i \in 1..Len(timestamps) |->
        parse_timestamp(timestamps[i]) - parse_timestamp(timestamps[1])]

\* TemporalAnalyzer._calculate_trend_slope.  The code measures the times in
\* days, elapsed seconds / 86400; here they are measured in units of u
\* seconds, u the greatest common divisor of the elapsed seconds, and the
\* slope per unit is converted to a slope per day: the same number.  All
\* times equal (u = 0) is the case denominator == 0.
calculate_trend_slope(I_D_values, timestamps) ==
    IF Len(I_D_values) < 2 THEN Rat(0, 1)
    ELSE SlopePerDay(ElapsedSeconds(timestamps), GCDAll(ElapsedSeconds(timestamps)),
                     I_D_values)

\* mutant: a slope equal to the threshold counts as stable
determine_trend_direction_Inclusive(sl) ==
    IF ~RatLt(STABLE_THRESHOLD, RatAbs(sl)) THEN "STABLE"
    ELSE IF sl[1] > 0 THEN "INCREASING"
    ELSE "DECREASING"

\* TemporalAnalyzer._determine_trend_direction
determine_trend_direction(sl) ==
    IF RatLt(RatAbs(sl), STABLE_THRESHOLD) THEN "STABLE"
    ELSE IF sl[1] > 0 THEN "INCREASING"
    ELSE "DECREASING"

RiskOfScore(risk_score) ==
    IF risk_score >= 3 THEN "CRITICAL"
    ELSE IF risk_score = 2 THEN "HIGH"
    ELSE IF risk_score = 1 THEN "MEDIUM"
    ELSE "LOW"

\* mutant: the baseline factor is left out of the score
assess_thermal_death_risk_NoBaseline(mean_I_D, trend_slope, interventions_rate) ==
    RiskOfScore(Bump(0, RatLt(MODERATE_THRESHOLD, trend_slope))
                + Bump(0, RatLt(HIGH_INTERVENTIONS, interventions_rate)))

\* TemporalAnalyzer._assess_thermal_death_risk
assess_thermal_death_risk(mean_I_D, trend_slope, interventions_rate) ==
    RiskOfScore(Bump(0, RatGeq(mean_I_D, HIGH_BASELINE))
                + Bump(0, RatLt(MODERATE_THRESHOLD, trend_slope))
                + Bump(0, RatLt(HIGH_INTERVENTIONS, interventions_rate)))

\* analyze_period on an empty list
EmptyPeriod ==
    [period_start |-> "N/A", period_end |-> "N/A", total_interactions |-> 0,
     mean_I_D |-> Rat(0, 1), std_I_D |-> 0, trend_slope |-> Rat(0, 1),
     trend_direction |-> "STABLE", interventions_count |-> 0,
     thermal_death_risk |-> "LOW"]

Interventions(results) ==
    Cardinality({ i \in 1..Len(results) : results[i].intervention_detected })

\* the TemporalMetrics that analyze_period builds
TemporalMetrics(total, timestamps, I_D_values, mean_I_D, trend_slope, interventions_count, n_results) ==
    [period_start |-> timestamps[1],
     period_end |-> timestamps[Len(timestamps)],
     total_interactions |-> total,
     mean_I_D |-> mean_I_D,
     std_I_D |-> IF Len(I_D_values) > 1 THEN stdev(I_D_values) ELSE 0,
     trend_slope |-> trend_slope,
     trend_direction |-> determine_trend_direction(trend_slope),
     interventions_count |-> interventions_count,
     thermal_death_risk |->
         assess_thermal_death_risk(mean_I_D, trend_slope,
                                   Rat(interventions_count, n_results))]

\* analyze_period, from the extracted I_D values and timestamps on
PeriodOfValues(total, results, I_D_values, timestamps) ==
    TemporalMetrics(total, timestamps, I_D_values, RatMean(I_D_values),
                    calculate_trend_slope(I_D_values, timestamps),
                    Interventions(results), Len(results))

\* analyze_period, after batch_monitor
PeriodOfBatch(total, b) ==
    IF b.exc # NoExc THEN [exc |-> b.exc, stats |-> b.stats]
    ELSE [exc |-> NoExc, stats |-> b.stats,
          val |-> PeriodOfValues(total, b.results,
                     [i \in 1..Len(b.results) |-> b.results[i].degradation.I_D],
                     [i \in 1..Len(b.results) |-> b.results[i].timestamp])]

\* mutant: the empty list is not set apart, and statistics.mean fails on it
analyze_period_Unguarded(st, batch, readings) ==
    IF batch = <<>> THEN [exc |-> "StatisticsError", stats |-> st]
    ELSE PeriodOfBatch(Len(batch), batch_monitor(st, <<>>, batch, readings, 1))

\* TemporalAnalyzer.analyze_period, the monitor's statistics being st and
\* the clock reading readings[i] when log i is monitored
analyze_period(st, batch, readings) ==
    IF batch = <<>> THEN [exc |-> NoExc, stats |-> st, val |-> EmptyPeriod]
    ELSE PeriodOfBatch(Len(batch), batch_monitor(st, <<>>, batch, readings, 1))

----------------------------------------------------------------------------
(* Specification of the Temporal Analyzer: a list of interaction logs is    *)
(* drawn, each with the time of its capture, and analyze_period is applied  *)
(* to it at a later time.  The clock may or may not have advanced by a      *)
(* second between two readings.                                             *)

LogDays == {0, 1}

\* response pairs with I_D = 0, 1/2 and 1, and a pair without any token
ResponsePairs ==
    { << << <<"a", "a">>, <<"a", "a">> >>, << <<"a", "a">>, <<"a", "a">> >> >>,
      << << <<"a", "a">>, <<"a", "a">> >>, << <<"a", "a">> >> >>,
      << << <<"a", "a">>, <<"a", "a">> >>, << >> >>,
      << << <<"c">> >>, << <<"c">> >> >> }

InteractionLogs ==
    { [timestamp |-> Timestamp(d * SECONDS_PER_DAY),
       response_origin |-> pr[1], response_control |-> pr[2]] :
          d \in LogDays, pr \in ResponsePairs }

\* ten tokens; RisingOrigin has 20 features, 10 words and 10 pairs
RisingWords ==
    << <<"a", "a">>, <<"a", "b">>, <<"a", "d">>, <<"b", "a">>, <<"b", "b">>,
       <<"b", "d">>, <<"d", "a">>, <<"d", "b">>, <<"d", "d">>, <<"a", "a", "a">> >>

RisingOrigin == << RisingWords[1] >> \o RisingWords

\* a control response sharing k of the 20 features of RisingOrigin
RisingControl(k) ==
    IF k % 2 = 0 THEN SubSeq(RisingOrigin, 1, (k \div 2) + 1)
    ELSE SubSeq(RisingWords, 1, (k + 1) \div 2)

\* ten logs, one per day, with I_D = 3/20, 4/20, ..., 12/20
RisingLogs ==
    [i \in 1..10 |->
        [timestamp |-> Timestamp((i - 1) * SECONDS_PER_DAY),
         response_origin |-> RisingOrigin,
         response_control |-> RisingControl(18 - i)]]

LogLists == UNION { [1..k -> InteractionLogs] : k \in 0..MaxLogs }

\* the analysis starts no earlier than the capture of the last log
InitTemporal ==
    /\ logs \in LogLists \cup {RisingLogs}
    /\ stats = NewStats
    /\ temporal = None
    /\ clock = IF logs = <<>> THEN 0 ELSE parse_timestamp(logs[Len(logs)].timestamp)
    /\ perturbed = None /\ run1 = None /\ run2 = None
    /\ DegIdle /\ VsIdle /\ ChainIdle /\ InvIdle /\ PertIdle /\ TrendIdle /\ MerkleIdle /\ LateIdle

\* the clock readings of the monitoring calls
Readings(start, ticks) ==
    [i \in 1..Len(ticks) |-> start + SumSeq(SubSeq(ticks, 1, i))]

Outcome(out) == IF out.exc = NoExc THEN Returned(out.val) ELSE Raised(out.exc)

AnalyzePeriodAt(ticks, out) ==
    /\ temporal' = Outcome(out)
    /\ stats' = out.stats
    /\ clock' = clock + SumSeq(ticks)

AnalyzePeriod ==
    /\ temporal = None
    /\ \E ticks \in [1..Len(logs) -> 0..1] :
          AnalyzePeriodAt(ticks, analyze_period(stats, logs, Readings(clock, ticks)))
    /\ UNCHANGED <<logs, perturbed, run1, run2, degVars, vsVars, chainVars,
                   invVars, pertVars, trendVars, merkleVars, lateVars>>

NextTemporal == AnalyzePeriod

SpecTemporal == InitTemporal /\ [][NextTemporal]_vars

AnalysisReturned == temporal # None /\ temporal.exc = NoExc

\* the three risk factors of a period, each worth one point
BaselineFactor(m) == 20 * m.mean_I_D[1] >= 7 * m.mean_I_D[2]
TrendFactor(m) == 20 * m.trend_slope[1] > 3 * m.trend_slope[2]
InterventionsFactor(m) == 2 * m.interventions_count > m.total_interactions

FactorScore(m) ==
    (IF BaselineFactor(m) THEN 1 ELSE 0) + (IF TrendFactor(m) THEN 1 ELSE 0)
    + (IF InterventionsFactor(m) THEN 1 ELSE 0)

\* C14: the risk rating that analyze_period returns for a non-empty period
\* is the three-factor score of the metrics it returns: one point for
\* mean_I_D >= 0.35, one for trend_slope > 0.15, one for more than half of
\* the interactions being interventions; 3 points CRITICAL, 2 HIGH,
\* 1 MEDIUM, 0 LOW.
C14_RiskIsThreeFactorScore ==
    (AnalysisReturned /\ logs # <<>>) =>
        temporal.val.thermal_death_risk =
            CASE FactorScore(temporal.val) = 3 -> "CRITICAL"
              [] FactorScore(temporal.val) = 2 -> "HIGH"
              [] FactorScore(temporal.val) = 1 -> "MEDIUM"
              [] FactorScore(temporal.val) = 0 -> "LOW"

\* a period with a low baseline, a rising trend and mostly interventions
C14_Witness ==
    /\ AnalysisReturned /\ logs # <<>>
    /\ ~BaselineFactor(temporal.val)
    /\ TrendFactor(temporal.val)
    /\ InterventionsFactor(temporal.val)
    /\ temporal.val.thermal_death_risk = "HIGH"

\* C15: ten measurements, one per day, whose I_D rises linearly from 0.15
\* to 0.60 are analysed as an INCREASING trend with risk HIGH or CRITICAL.
C15_RisingScenario ==
    (logs = RisingLogs /\ temporal # None) =>
        /\ temporal.exc = NoExc
        /\ temporal.val.trend_direction = "INCREASING"
        /\ temporal.val.thermal_death_risk \in {"HIGH", "CRITICAL"}

SameTimestamps == \A i \in 1..Len(logs) : logs[i].timestamp = logs[1].timestamp

\* C17: a single measurement, or several measurements that all carry the
\* same timestamp, give slope 0 and direction STABLE; a single measurement
\* gives standard deviation 0.
C17_DegenerateTimestamps ==
    (AnalysisReturned /\ logs # <<>> /\ SameTimestamps) =>
        /\ temporal.val.trend_slope[1] = 0
        /\ temporal.val.trend_direction = "STABLE"
        /\ Len(logs) = 1 => temporal.val.std_I_D = 0

\* the I_D of each log and the time each log carries
LogDegradations ==
    [i \in 1..Len(logs) |->
        calculate(logs[i].response_origin, logs[i].response_control).val.I_D]
LogTimestamps == [i \in 1..Len(logs) |-> logs[i].timestamp]

\* C18: the period analyze_period reports starts at the first input
\* timestamp and ends at the last one, and its slope is the regression of
\* I_D against the days between the input timestamps, whatever the time of
\* the analysis.
C18_UsesInputTimestamps ==
    (AnalysisReturned /\ logs # <<>>) =>
        /\ temporal.val.period_start = logs[1].timestamp
        /\ temporal.val.period_end = logs[Len(logs)].timestamp
        /\ RatEq(temporal.val.trend_slope,
                 calculate_trend_slope(LogDegradations, LogTimestamps))

\* C19: analyze_period of the empty list does not raise and returns zero
\* interactions, mean, deviation, slope and interventions, direction
\* STABLE and risk LOW.
C19_EmptyPeriod ==
    (logs = <<>> /\ temporal # None) =>
        /\ temporal.exc = NoExc
        /\ temporal.val.total_interactions = 0
        /\ temporal.val.mean_I_D[1] = 0
        /\ temporal.val.std_I_D = 0
        /\ temporal.val.trend_slope[1] = 0
        /\ temporal.val.interventions_count = 0
        /\ temporal.val.trend_direction = "STABLE"
        /\ temporal.val.thermal_death_risk = "LOW"

C19_Witness == logs = <<>> /\ temporal # None /\ temporal.exc = NoExc

----------------------------------------------------------------------------
(* Specification of the trend direction: a slope in hundredths per day is  *)
(* drawn and _determine_trend_direction is applied to it.                  *)

Slopes == { Rat(k, 100) : k \in (0 - MaxSlopePct)..MaxSlopePct }

InitTrend ==
    /\ slope \in Slopes
    /\ direction = None
    /\ clock = 0 /\ perturbed = None /\ run1 = None /\ run2 = None
    /\ DegIdle /\ VsIdle /\ ChainIdle /\ InvIdle /\ PertIdle /\ TemporalIdle
    /\ MerkleIdle /\ LateIdle

DetermineTrendDirection ==
    /\ direction = None
    /\ direction' = [val |-> determine_trend_direction(slope)]
    /\ UNCHANGED <<slope, clock, perturbed, run1, run2, degVars, vsVars,
                   chainVars, invVars, pertVars, temporalVars, merkleVars, lateVars>>

NextTrend == DetermineTrendDirection

SpecTrend == InitTrend /\ [][NextTrend]_vars

\* C16: the direction depends on the slope alone; it is STABLE exactly
\* when |slope| < 0.05, otherwise INCREASING for a positive slope and
\* DECREASING for a negative one; a slope of 0.05 or -0.05 is not STABLE.
C16_DirectionFromSlope ==
    direction # None =>
        /\ (direction.val = "STABLE") <=> (Abs(slope[1]) * 20 < slope[2])
        /\ direction.val = "INCREASING" => slope[1] > 0
        /\ direction.val = "DECREASING" => slope[1] < 0
        /\ direction.val \in {"STABLE", "INCREASING", "DECREASING"}

\* the slope is exactly 0.05 a day
C16_Witness ==
    /\ slope = Rat(5, 100)
    /\ direction # None /\ direction.val = "INCREASING"

----------------------------------------------------------------------------
(* Specification of the Merkle root: links are created one after another,  *)
(* the clock advancing or not in between, the list is put in another       *)
(* order, and create_merkle_root is applied to both lists.                 *)

\* "".join(link.chain_hash for link in links): every chain_hash that
\* create_link writes is a hexdigest of 64 characters, so the joined string
\* determines the sequence of digests and is modelled by that sequence
JoinChainHashes(ls) == [i \in 1..Len(ls) |-> ls[i].chain_hash]

\* mutant: the digests are combined regardless of their order
create_merkle_root_Unordered(ls) ==
    IF ls = <<>> THEN [str |-> <<>>]
    ELSE Sha256({ ls[i].chain_hash : i \in 1..Len(ls) })

\* mutant: a Merkle tree, the digests hashed two by two from the left
RECURSIVE PairwiseRoot(_, _, _)
PairwiseRoot(ls, i, acc) ==
    IF i > Len(ls) THEN acc
    ELSE PairwiseRoot(ls, i + 1, Sha256(<<acc, ls[i].chain_hash>>))

create_merkle_root_Pairwise(ls) ==
    IF ls = <<>> THEN [str |-> <<>>]
    ELSE PairwiseRoot(ls, 2, Sha256(<<ls[1].chain_hash>>))

\* IntegrityChain.create_merkle_root
create_merkle_root(ls) ==
    IF ls = <<>> THEN [str |-> <<>>]
    ELSE Sha256(JoinChainHashes(ls))

MerkleData == { [str |-> <<"a">>], [str |-> <<"b">>] }

Orders(n) == { p \in [1..n -> 1..n] : \A i, j \in 1..n : p[i] = p[j] => i = j }

InitMerkle ==
    /\ links = <<>>
    /\ permuted = None
    /\ roots = None
    /\ clock = 0 /\ perturbed = None /\ run1 = None /\ run2 = None
    /\ DegIdle /\ VsIdle /\ ChainIdle /\ InvIdle /\ PertIdle /\ TemporalIdle
    /\ TrendIdle /\ LateIdle

AppendLink ==
    /\ permuted = None
    /\ Len(links) < MaxLinks
    /\ \E d \in MerkleData : links' = Append(links, create_link(d, None, clock))
    /\ clock' \in {clock, clock + 1}
    /\ UNCHANGED <<permuted, roots, perturbed, run1, run2, degVars, vsVars,
                   chainVars, invVars, pertVars, temporalVars, trendVars, lateVars>>

Permute ==
    /\ permuted = None
    /\ \E p \in Orders(Len(links)) :
          permuted' = [list |-> [i \in 1..Len(links) |-> links[p[i]]]]
    /\ UNCHANGED <<links, roots, clock, perturbed, run1, run2, degVars, vsVars,
                   chainVars, invVars, pertVars, temporalVars, trendVars, lateVars>>

CreateMerkleRoot ==
    /\ permuted # None
    /\ roots = None
    /\ roots' = [original |-> create_merkle_root(links),
                 permuted |-> create_merkle_root(permuted.list)]
    /\ UNCHANGED <<links, permuted, clock, perturbed, run1, run2, degVars, vsVars,
                   chainVars, invVars, pertVars, temporalVars, trendVars, lateVars>>

NextMerkle == AppendLink \/ Permute \/ CreateMerkleRoot

SpecMerkle == InitMerkle /\ [][NextMerkle]_vars

\* C20, as stated: whenever the permuted list of links differs from the
\* original list, its root differs from the original root.
C20_OrderSensitive ==
    (roots # None /\ permuted.list # links) => roots.permuted # roots.original

\* C20, amended: whenever the permuted list carries its chain_hash values
\* in another order than the original list, its root differs from the
\* original root.
C20_OrderOfChainHashes ==
    (roots # None /\ JoinChainHashes(permuted.list) # JoinChainHashes(links))
        => roots.permuted # roots.original

\* three links, the first and the last swapped, with different chain hashes
C20_Witness ==
    /\ roots # None
    /\ Len(links) = 3
    /\ permuted.list = <<links[3], links[2], links[1]>>
    /\ links[1].chain_hash # links[3].chain_hash
    /\ roots.permuted # roots.original

\* C21: the root of the empty list is the empty string; the root of a
\* non-empty list is one SHA-256 whose input is made of the links'
\* chain_hash values themselves, one per link, in the order of the list.
C21_SingleLevelRoot ==
    roots # None =>
        /\ links = <<>> => roots.original = [str |-> <<>>]
        /\ links # <<>> =>
              /\ DOMAIN roots.original = {"sha256"}
              /\ Len(roots.original.sha256) = Len(links)
              /\ \A i \in 1..Len(links) :
                    roots.original.sha256[i] = links[i].chain_hash

\* three links of different data
C21_Witness ==
    /\ roots # None
    /\ Len(links) = 3
    /\ links[1].chain_hash # links[2].chain_hash
    /\ roots.original = Sha256(<<links[1].chain_hash, links[2].chain_hash,
                                 links[3].chain_hash>>)

----------------------------------------------------------------------------
(* Specification of the Shannon entropy: a text is drawn, with words of one *)
(* letter, repeated words, capitals and punctuation, and calculate_entropy  *)
(* is applied to it.                                                        *)

EntropyWords ==
    { <<"a", "a">>, <<"A", "a">>, <<"b", "b">>, <<"c">>, <<".">>, <<"c", ".">>,
      <<"a", "a", ".">> }

EntropyTexts == UNION { [1..k -> EntropyWords] : k \in 0..MaxEntropyLen }

entropyOthers == <<vsVars, chainVars, engineVars, invVars, pertVars, temporalVars, trendVars, merkleVars, alertVars, batchVars, auditVars, monitorVars, fieldsVars>>

entropyOthersIdle ==
    /\ VsIdle /\ ChainIdle /\ EngineIdle
    /\ InvIdle /\ PertIdle /\ TemporalIdle /\ TrendIdle /\ MerkleIdle
    /\ AlertIdle
    /\ BatchIdle
    /\ AuditIdle
    /\ MonitorIdle
    /\ FieldsIdle

InitEntropy ==
    /\ text_origin \in EntropyTexts
    /\ entropy = None
    /\ text_control = <<>> /\ degradation = None /\ metrics = None
    /\ entropyOthersIdle

CalculateEntropy ==
    /\ entropy = None
    /\ entropy' = Returned(calculate_entropy(text_origin))
    /\ UNCHANGED <<degVars, entropyOthers>>

NextEntropy == CalculateEntropy

SpecEntropy == InitEntropy /\ [][NextEntropy]_vars

\* the distinct lexemes of a text: its words in lower case and without
\* punctuation, those of one character or none left out
LexemesOf(text) ==
    { w \in { StripPunctuation(LowerWord(text[i])) : i \in 1..Len(text) } : Len(w) > 1 }

\* C22: calculate_entropy returns a value >= 0 for every text, and 0,
\* without raising, for every text with no lexeme or one distinct lexeme.
C22_EntropyNonNegative ==
    entropy # None =>
        /\ entropy.exc = NoExc
        /\ entropy.val >= 0
        /\ Cardinality(LexemesOf(text_origin)) <= 1 => entropy.val = 0

\* one lexeme written three ways, and a text of punctuation and single
\* letters only
C22_Witness ==
    /\ entropy # None
    /\ text_origin \in { << <<"A", "a">>, <<"a", "a", ".">>, <<"a", "a">> >>,
                          << <<".">>, <<"c", ".">>, <<"c">> >> }
    /\ entropy.val = 0

----------------------------------------------------------------------------
\* C23: analyze_period leaves the TemporalAnalyzer as it was, the
\* statistics counters of its DegradationMonitor included.
C23_AnalyzerUnchanged == [][AnalyzePeriod => stats' = stats]_vars

----------------------------------------------------------------------------
(* Audit/alert_system.py: AlertSystem *)

ALERT_CRITICAL_THRESHOLD == Rat(2, 5)
ALERT_WARNING_THRESHOLD == Rat(1, 4)

\* mutant: the alert thresholds read as strict
determine_level_Strict(I_D) ==
    IF RatLt(ALERT_CRITICAL_THRESHOLD, I_D) THEN "CRITICAL"
    ELSE IF RatLt(ALERT_WARNING_THRESHOLD, I_D) THEN "WARNING"
    ELSE "INFO"

\* AlertSystem._determine_level
determine_level(I_D) ==
    IF RatGeq(I_D, ALERT_CRITICAL_THRESHOLD) THEN "CRITICAL"
    ELSE IF RatGeq(I_D, ALERT_WARNING_THRESHOLD) THEN "WARNING"
    ELSE "INFO"

----------------------------------------------------------------------------
(* Specification of the alerting decisions: an I_D value is drawn and      *)
(* classified by the calculator's status branch, by the monitor and by the *)
(* alert system.                                                           *)

Indices == { Rat(k, IndexSteps) : k \in 0..IndexSteps }

alertOthers == <<degVars, vsVars, chainVars, engineVars, invVars, pertVars, temporalVars, trendVars, merkleVars, entropyVars, batchVars, auditVars, monitorVars, fieldsVars>>

alertOthersIdle ==
    /\ DegIdle /\ VsIdle /\ ChainIdle /\ EngineIdle
    /\ InvIdle /\ PertIdle /\ TemporalIdle /\ TrendIdle /\ MerkleIdle
    /\ EntropyIdle
    /\ BatchIdle
    /\ AuditIdle
    /\ MonitorIdle
    /\ FieldsIdle

InitAlert ==
    /\ index \in Indices
    /\ classified = None
    /\ alertOthersIdle

\* the classifications, the monitor's being those of its MonitoringResult
Classifications(I_D, result) ==
    [status |-> StatusOf(I_D),
     severity_level |-> result.severity_level,
     intervention_detected |-> result.intervention_detected,
     level |-> determine_level(I_D)]

Classify ==
    /\ classified = None
    /\ classified' =
          Classifications(index, MonitoringResult(Returned([I_D |-> index]), clock).val)
    /\ UNCHANGED <<index, alertOthers>>

NextAlert == Classify

SpecAlert == InitAlert /\ [][NextAlert]_vars

----------------------------------------------------------------------------
(* Sovereignty/integrity_chain.py: batch_create_links.  A dict is an       *)
(* object: a list of metadata holds references, the heap holds the dicts.  *)

Ref(a) == [ref |-> a]

\* the address of the dict that [{}] * len(data_list) allocates
FreshAddress == 0

\* metadata_list = [{}] * len(data_list): one dict, referenced n times
DefaultMetadataList(n) == [i \in 1..n |-> Ref(FreshAddress)]

\* the heap with the dicts of the default metadata list allocated
WithDefaultDicts(h, refs) ==
    [a \in DOMAIN h \cup { refs[i].ref : i \in 1..Len(refs) } |->
        IF a \in DOMAIN h THEN h[a] ELSE EmptyDict]

\* the IntegrityLink of create_link, its metadata being the dict at r,
\* which create_link has updated in place
LinkAt(l, r) == [l EXCEPT !.metadata = r]

\* the loop of batch_create_links over zip(data_list, metadata_list), from
\* pair i on, create_link number i reading the clock at readings[i]
RECURSIVE BatchLoop(_, _, _, _, _, _)

BatchLoopStep(ds, refs, readings, i, h, ls, l) ==
    BatchLoop(ds, refs, readings, i + 1,
              [h EXCEPT ![refs[i].ref] = l.metadata],
              Append(ls, LinkAt(l, refs[i])))

BatchLoop(ds, refs, readings, i, h, ls) ==
    IF i > Len(ds) \/ i > Len(refs) THEN [links |-> ls, heap |-> h]
    ELSE BatchLoopStep(ds, refs, readings, i, h, ls,
                       create_link(ds[i], [dict |-> h[refs[i].ref]], readings[i]))

BatchOn(ds, refs, readings, h) ==
    BatchLoop(ds, refs, readings, 1, WithDefaultDicts(h, refs), <<>>)

\* IntegrityChain.batch_create_links
batch_create_links(ds, mds, readings, h) ==
    BatchOn(ds, IF mds = None THEN DefaultMetadataList(Len(ds)) ELSE mds.list,
            readings, h)

----------------------------------------------------------------------------
(* Specification of batch creation: a list of data is drawn, with no list  *)
(* of metadata or with one dict of the caller per element, and             *)
(* batch_create_links is applied, the clock advancing or not between two   *)
(* links.                                                                  *)

CallerDict(a) == IF a % 2 = 1 THEN EmptyDict ELSE [type |-> [str |-> <<"a">>]]

BatchDataLists == UNION { [1..k -> MerkleData] : k \in 0..MaxBatch }

\* one dict of the caller per element, no dict given twice
CallerMetadataLists(n) ==
    { q \in [1..n -> { Ref(a) : a \in 1..MaxBatch }] :
        \A i, j \in 1..n : q[i] = q[j] => i = j }

batchOthers == <<degVars, vsVars, chainVars, perturbed, run1, run2, invVars, pertVars, temporalVars, trendVars, merkleVars, entropyVars, alertVars, auditVars, monitorVars, fieldsVars>>

batchOthersIdle ==
    /\ DegIdle /\ VsIdle /\ ChainIdle /\ EngineIdle
    /\ InvIdle /\ PertIdle /\ TemporalIdle /\ TrendIdle /\ MerkleIdle
    /\ EntropyIdle /\ AlertIdle
    /\ AuditIdle
    /\ MonitorIdle
    /\ FieldsIdle

InitBatch ==
    /\ data_list \in BatchDataLists
    /\ metadata_list \in {None} \cup { [list |-> q] : q \in CallerMetadataLists(Len(data_list)) }
    /\ heap = [a \in 1..MaxBatch |-> CallerDict(a)]
    /\ created = None
    /\ batchOthersIdle

BatchCreated(ticks, out) ==
    /\ created' = [list |-> out.links]
    /\ heap' = out.heap
    /\ clock' = clock + SumSeq(ticks)

BatchCreateLinks ==
    /\ created = None
    /\ \E ticks \in [1..Len(data_list) -> 0..1] :
          BatchCreated(ticks, batch_create_links(data_list, metadata_list,
                                                 Readings(clock, ticks), heap))
    /\ UNCHANGED <<data_list, metadata_list, batchOthers>>

NextBatch == BatchCreateLinks

SpecBatch == InitBatch /\ [][NextBatch]_vars

\* C25: batch_create_links returns one link per element of data_list, in
\* order, each with the hashes create_link gives for that element, and
\* after the batch the metadata of every link holds the link's own
\* timestamp under 'created_at'.
C25_BatchIsCreateLink ==
    created # None =>
        /\ Len(created.list) = Len(data_list)
        /\ \A i \in 1..Len(created.list) :
              /\ created.list[i].data_hash = compute_data_hash(data_list[i])
              /\ created.list[i].chain_hash = compute_chain_hash(data_list[i])
              /\ heap[created.list[i].metadata.ref]["created_at"]
                    = created.list[i].timestamp

----------------------------------------------------------------------------
(* main.py: AgenciaCientificaInvarianza.ejecutar_auditoria.  The report    *)
(* and its signature are built from the same responses after analyze has   *)
(* returned, and do not enter what is printed about the matrix.            *)

\* getattr(obj, name, default)
GetAttr(obj, name, default) == IF name \in DOMAIN obj THEN obj[name] ELSE default

CENSORSHIP_THRESHOLD == Rat(2, 5)

\* the STATUS line
PrintedStatus(idx_degradacion) ==
    IF RatLt(CENSORSHIP_THRESHOLD, idx_degradacion) THEN "CENSURA DETECTADA"
    ELSE "SISTEMA ESTABLE"

\* the lines printed for idx_degradacion, f"{idx_degradacion:.4f}" kept in
\* ten-thousandths
Printed(matrix, idx_degradacion) ==
    [matrix |-> matrix,
     index |-> RatToFixed(idx_degradacion),
     status |-> PrintedStatus(idx_degradacion)]

\* ejecutar_auditoria, from the outcome of analyze on
AuditOnMatrix(m) ==
    IF m.exc # NoExc THEN Raised(m.exc)
    ELSE Returned(Printed(m.val,
                          GetAttr(m.val, "I_D", GetAttr(m.val, "id_score", Rat(0, 1)))))

\* AgenciaCientificaInvarianza.ejecutar_auditoria at time t
ejecutar_auditoria(r_origen, r_control, t) ==
    AuditOnMatrix(analyze(r_origen, r_control, None, t))

----------------------------------------------------------------------------
(* Specification of the audit: two responses are drawn and                 *)
(* ejecutar_auditoria is applied to them.                                  *)

AuditTexts == UNION { [1..k -> EngineWords] : k \in 0..MaxAuditLen }

auditOthers == <<degradation, metrics, vsVars, chainVars, perturbed, run1, run2, invVars, pertVars, temporalVars, trendVars, merkleVars, entropyVars, alertVars, batchVars, monitorVars, fieldsVars>>

auditOthersIdle ==
    /\ VsIdle /\ ChainIdle /\ EngineIdle
    /\ InvIdle /\ PertIdle /\ TemporalIdle /\ TrendIdle /\ MerkleIdle
    /\ EntropyIdle /\ AlertIdle /\ BatchIdle
    /\ MonitorIdle
    /\ FieldsIdle

InitAudit ==
    /\ text_origin \in AuditTexts
    /\ text_control \in AuditTexts
    /\ degradation = None /\ metrics = None
    /\ printed = None
    /\ auditOthersIdle

EjecutarAuditoria ==
    /\ printed = None
    /\ printed' = ejecutar_auditoria(text_origin, text_control, clock)
    /\ clock' = clock + 1
    /\ UNCHANGED <<text_origin, text_control, auditOthers>>

NextAudit == EjecutarAuditoria

SpecAudit == InitAudit /\ [][NextAudit]_vars

\* C26: the audit prints censorship detected exactly when the matrix that
\* analyze returned has degradation_index >= 0.40 (status
\* INTERFERENCIA_CRITICA), and the index it prints is the matrix's
\* degradation_index.
C26_PrintedStatusAgrees ==
    (printed # None /\ printed.exc = NoExc) =>
        /\ (printed.val.status = "CENSURA DETECTADA")
              <=> (printed.val.matrix.degradation_status = "INTERFERENCIA_CRITICA")
        /\ (printed.val.matrix.degradation_status = "INTERFERENCIA_CRITICA")
              <=> (5 * printed.val.matrix.degradation_index[1]
                     >= 2 * printed.val.matrix.degradation_index[2])
        /\ printed.val.index = RatToFixed(printed.val.matrix.degradation_index)

----------------------------------------------------------------------------
\* C27: the overlap_ratio of a DegradationResult is
\* dim_intersection/dim_V_O (0 when dim_V_O = 0), lies in [0, 1], equals
\* 1 - I_D when dim_V_O > 0 and equals the overlap_ratio of
\* analyze_semantic_overlap for the same pair; degradation_percentage is
\* 100 * I_D.
C27_OverlapRatio ==
    (CalculateReturned /\ metrics # None /\ metrics.exc = NoExc) =>
        /\ degradation.val.dim_V_O > 0 =>
              /\ RatEq(degradation.val.overlap_ratio,
                       Rat(degradation.val.dim_intersection, degradation.val.dim_V_O))
              /\ RatEq(degradation.val.overlap_ratio,
                       Rat(degradation.val.I_D[2] - degradation.val.I_D[1],
                           degradation.val.I_D[2]))
        /\ degradation.val.dim_V_O = 0 => degradation.val.overlap_ratio[1] = 0
        /\ degradation.val.overlap_ratio[1] >= 0
        /\ degradation.val.overlap_ratio[1] <= degradation.val.overlap_ratio[2]
        /\ RatEq(degradation.val.overlap_ratio,
                 analyze_semantic_overlap(metrics.val.vector_space).val.overlap_ratio)
        /\ RatEq(degradation.val.degradation_percentage,
                 Rat(100 * degradation.val.I_D[1], degradation.val.I_D[2]))

----------------------------------------------------------------------------
(* Specification of the Degradation Monitor: monitor_interaction,          *)
(* monitor_log, batch_monitor and get_interventions are called in any      *)
(* order on one monitor, on interactions of every severity and on          *)
(* interactions whose comparison raises.  Every call takes one tick.       *)

\* response pairs with I_D = 0, 1/5, 1/3 and 1, and a pair without any token
MonitorPairs ==
    { << << <<"a", "a">> >>, << <<"a", "a">> >> >>,
      << << <<"a", "a">>, <<"b", "b">>, <<"D", "d">> >>,
         << <<"D", "d">>, <<"a", "a">>, <<"b", "b">> >> >>,
      << << <<"a", "a">>, <<"b", "b">> >>, << <<"b", "b">>, <<"a", "a">> >> >>,
      << << <<"a", "a">> >>, << >> >>,
      << << <<"c">> >>, << <<"c">> >> >> }

MonitorLogs ==
    { [timestamp |-> Timestamp(0), response_origin |-> pr[1], response_control |-> pr[2]] :
          pr \in MonitorPairs }

MonitorBatches == UNION { [1..k -> MonitorLogs] : k \in 0..MaxMonitorBatch }

monitorOthers == <<logs, temporal, degVars, vsVars, chainVars, perturbed, run1, run2, invVars, pertVars, trendVars, merkleVars, entropyVars, alertVars, batchVars, auditVars, fieldsVars>>

monitorOthersIdle ==
    /\ DegIdle /\ VsIdle /\ ChainIdle /\ EngineIdle
    /\ InvIdle /\ PertIdle /\ TrendIdle /\ MerkleIdle
    /\ EntropyIdle /\ AlertIdle /\ BatchIdle /\ AuditIdle
    /\ FieldsIdle

InitMonitor ==
    /\ stats = NewStats
    /\ monitored = 0
    /\ monitor_ret = None
    /\ logs = <<>> /\ temporal = None
    /\ monitorOthersIdle

\* monitor_interaction and monitor_log: the statistics move when the
\* comparison has returned
Monitored(call, r) ==
    /\ stats' = IF r.exc = NoExc THEN update_stats(stats, r.val) ELSE stats
    /\ monitored' = IF r.exc = NoExc THEN monitored + 1 ELSE monitored
    /\ monitor_ret' = [call |-> call, exc |-> r.exc]

MonitorInteraction ==
    /\ clock < MaxMonitorCalls
    /\ \E pr \in MonitorPairs :
          Monitored("monitor_interaction", MonitoringResult(calculate(pr[1], pr[2]), clock))
    /\ clock' = clock + 1
    /\ UNCHANGED monitorOthers

MonitorLog ==
    /\ clock < MaxMonitorCalls
    /\ \E log \in MonitorLogs : Monitored("monitor_log", monitor_log(log, clock))
    /\ clock' = clock + 1
    /\ UNCHANGED monitorOthers

\* batch_monitor and get_interventions: the statistics have moved for the
\* logs monitored before an exception
BatchMonitored(call, out, returned) ==
    /\ stats' = out.stats
    /\ monitored' = monitored + Len(out.results)
    /\ monitor_ret' = [call |-> call, exc |-> out.exc, returned |-> returned]

BatchMonitor ==
    /\ clock < MaxMonitorCalls
    /\ \E b \in MonitorBatches :
          BatchMonitored("batch_monitor",
                         batch_monitor(stats, <<>>, b, [i \in 1..Len(b) |-> clock], 1),
                         Len(b))
    /\ clock' = clock + 1
    /\ UNCHANGED monitorOthers

\* DegradationMonitor.get_interventions: batch_monitor, then the results
\* with intervention_detected
GetInterventionsOn(out) ==
    BatchMonitored("get_interventions", out,
                   IF out.exc = NoExc THEN Interventions(out.results) ELSE 0)

GetInterventions ==
    /\ clock < MaxMonitorCalls
    /\ \E b \in MonitorBatches :
          GetInterventionsOn(
              batch_monitor(stats, <<>>, b, [i \in 1..Len(b) |-> clock], 1))
    /\ clock' = clock + 1
    /\ UNCHANGED monitorOthers

NextMonitor == MonitorInteraction \/ MonitorLog \/ BatchMonitor \/ GetInterventions

SpecMonitor == InitMonitor /\ [][NextMonitor]_vars

\* C28: on one DegradationMonitor, total_monitored is always the sum of
\* the four alert counters and the number of interactions monitored so
\* far, interventions_detected equals critical_alerts, and no counter
\* ever decreases.
C28_MonitorCounters ==
    /\ [](stats # None =>
            /\ stats.total_monitored
                 = stats.critical_alerts + stats.high_alerts
                   + stats.medium_alerts + stats.low_alerts
            /\ stats.interventions_detected = stats.critical_alerts
            /\ stats.total_monitored = monitored)
    /\ [][stats # None =>
            \A k \in DOMAIN stats : stats'[k] >= stats[k]]_vars

\* every severity has been counted, the last call being get_interventions
\* on a batch with an intervention in it
C28_Witness ==
    /\ stats # None /\ monitor_ret # None
    /\ stats.critical_alerts > 0 /\ stats.high_alerts > 0
    /\ stats.medium_alerts > 0 /\ stats.low_alerts > 0
    /\ monitor_ret.call = "get_interventions"
    /\ monitor_ret.exc = NoExc
    /\ monitor_ret.returned > 0

----------------------------------------------------------------------------
\* the object a fresh SemanticVectorSpace becomes by fit_transform on the
\* texts of the last fit_transform that completed on vs
LastFitted == fit_transform(NewVectorSpace, last_fit.o, last_fit.c).self

\* C29: on one SemanticVectorSpace, cosine_distance, kl_divergence and
\* dimensionality_intersection return what they return for the pair of the
\* last fit_transform that completed, and a fit_transform that raises
\* leaves V_O, V_C and feature_names as they were.
C29_LastCompletedFit ==
    /\ []((MetricCalled /\ last_fit # None) =>
            /\ ret.op = "cosine_distance" => ret.out = cosine_distance(LastFitted)
            /\ ret.op = "kl_divergence" => ret.out = kl_divergence(LastFitted)
            /\ ret.op = "dimensionality_intersection"
                  => ret.out = dimensionality_intersection(LastFitted))
    /\ [][(ret'.op = "fit_transform" /\ ret'.out.exc # NoExc) => vs' = vs]_vars

\* a fit_transform has raised on an object that holds the vectors of an
\* earlier pair
C29_Witness ==
    /\ ret = Call("fit_transform", Raised("ValueError"))
    /\ last_fit # None
    /\ Initialized(vs)

----------------------------------------------------------------------------
(***************************************************************************)
(* Sovereignty/integrity_chain.py: two links for one data value.  Beside   *)
(* the link of SpecChain there is a second one: either create_link is      *)
(* called again on the same data, at a later time and with any metadata,   *)
(* or a caller builds an IntegrityLink with the first link's data_hash,    *)
(* chain_hash, root_hash and cid and a timestamp and metadata of its own.  *)
(* verify_link is applied to each link with the same data.                 *)
(***************************************************************************)

\* IntegrityLink(...) with the four hash fields of l
IntegrityLinkLike(l, ts, md) ==
    [l EXCEPT !.timestamp = ts, !.metadata = IF md = None THEN EmptyDict ELSE md.dict]

SameCheckedFields(l1, l2) ==
    \A field \in LinkFields : l1[field] = l2[field]

InitFields ==
    /\ data \in MerkleData
    /\ metadata \in MetadataValues
    /\ probe \in MerkleData
    /\ link = None
    /\ forged = {}
    /\ verdict = None
    /\ hashes = None
    /\ DegIdle /\ VsIdle /\ EngineIdle
    /\ RestIdle

CreateLinkAgain ==
    /\ link # None
    /\ relinked = None
    /\ \E md \in MetadataValues, t \in clock..MaxClock :
           /\ relinked' = [by |-> "create_link", link |-> create_link(data, md, t)]
           /\ clock' = t + 1
    /\ UNCHANGED <<chainVars, perturbed, run1, run2, reverdict, degVars, vsVars, invVars,
                   pertVars, temporalVars, trendVars, merkleVars, entropyVars, alertVars,
                   batchVars, auditVars, monitorVars>>

BuildLinkLike ==
    /\ link # None
    /\ relinked = None
    /\ \E md \in MetadataValues, t \in 0..MaxClock :
           relinked' = [by |-> "IntegrityLink", link |-> IntegrityLinkLike(link, Timestamp(t), md)]
    /\ UNCHANGED <<chainVars, engineVars, reverdict, degVars, vsVars, invVars,
                   pertVars, temporalVars, trendVars, merkleVars, entropyVars, alertVars,
                   batchVars, auditVars, monitorVars>>

VerifyOtherLink ==
    /\ relinked # None
    /\ reverdict = None
    /\ reverdict' = Returned(verify_link(probe, relinked.link))
    /\ UNCHANGED <<chainVars, engineVars, relinked, degVars, vsVars, invVars,
                   pertVars, temporalVars, trendVars, merkleVars, entropyVars, alertVars,
                   batchVars, auditVars, monitorVars>>

NextFields ==
    CreateLink \/ ForgeField \/ VerifyLink \/ CreateLinkAgain \/ BuildLinkLike \/ VerifyOtherLink

SpecFields == InitFields /\ [][NextFields]_vars

\* C30: two links with the same data_hash, chain_hash, root_hash and cid get
\* the same verdict of verify_link for the same data, whatever their
\* timestamp and metadata, and create_link gives the same data_hash and
\* chain_hash for the same data whatever the metadata and the creation time
C30_VerdictIgnoresTimestampAndMetadata ==
    /\ (Verified /\ reverdict # None /\ SameCheckedFields(link, relinked.link))
          => reverdict = verdict
    /\ (link # None /\ forged = {} /\ relinked # None /\ relinked.by = "create_link")
          => /\ relinked.link.data_hash = link.data_hash
             /\ relinked.link.chain_hash = link.chain_hash

\* C30 witness: a valid link and a copy of it with another timestamp and
\* no created_at in its metadata, both verified
C30_Witness ==
    /\ Verified
    /\ verdict = Returned(TRUE)
    /\ reverdict # None
    /\ relinked.by = "IntegrityLink"
    /\ relinked.link.timestamp # link.timestamp
    /\ relinked.link.metadata # link.metadata
    /\ SameCheckedFields(link, relinked.link)

====
